---- MODULE Spec2Model ----
(***************************************************************************)
(* pymonome-apps: the clocks of clocks.py (RtMidiClock, FooClock,          *)
(* InaccurateTempoClock) and the counter automaton of meadowphysics.py     *)
(* (Counter, Meadowphysics).                                               *)
(*                                                                         *)
(* The clocks run on an asyncio event loop.  A callback of the loop runs   *)
(* to its next suspension point before any other callback of the loop      *)
(* runs; callbacks scheduled with call_soon run in FIFO order, before any  *)
(* I/O or timer callback that becomes ready later.  The RtMidiClock's MIDI *)
(* input callback runs on the MIDI library's own thread and interleaves    *)
(* with the loop at any point.                                             *)
(***************************************************************************)
EXTENDS Integers, Sequences, FiniteSets, TLC

\* ------------------------------------------------------------------------
\* Bounds of the model
\* ------------------------------------------------------------------------

\* pulses are counted while ticks < MaxTicks
MaxTicks == 3
\* sync is called with q in 1..MaxQ, and with 0, -MaxQ and the fraction 1/2
MaxQ == 2
\* bytes the MIDI thread may leave unread in _tick_queue
MaxQueue == 1

\* the automaton has NumCounters counters (COUNTERS = 8 in the source)
NumCounters == 3
\* grid columns 1..MaxX hold a counter's positions (1..15 in the source);
\* the position 7 that Counter.__init__ sets is scaled to MaxX
MaxX == 2

\* the rule table is applied to ranges within 0..MaxPos (a row has 16 positions)
MaxPos == 5

\* keys of one row counted as held at once (main_mode_key_count)
MaxHeld == 2
\* the speed keys pressed are the columns 8..8+MaxSpeed (8..15 in the source)
MaxSpeed == 2

\* tasks of earlier start() calls that may be alive beside _read_ticks_task
MaxOrphans == 2

\* the automaton left to itself is followed for MaxSteps steps
MaxSteps == 100

\* the calls of Meadowphysics.stop on one cancelled play task are counted up
\* to MaxCancels
MaxCancels == 2

\* the interval history holds MaxWindow intervals (maxlen=96 in the source)
MaxWindow == 2
\* the time between two counted pulses is 1..MaxInterval time units
MaxInterval == 2

\* the tasks that call sync()
Tasks == {"t1", "t2"}

Kinds == {"RtMidiClock", "FooClock", "InaccurateTempoClock"}

\* q = num/den.  The fraction 1/2 is what Meadowphysics.play passes for
\* clock_div = 2; a dyadic fraction is exact in floating point.
QValues == {<<n, 1>> : n \in 0..MaxQ} \cup {<<0 - MaxQ, 1>>, <<1, 2>>}

\* q >= 1
QValid(q) == q[1] >= q[2]

\* nothing of the loop thread is mid-callback
Idle == [who |-> "none", tmp |-> 0]

VARIABLES
    \* ---- clocks.py
    kind,        \* which clock class the instance is
    ticks,       \* self.ticks
    stopped,     \* RtMidiClock.stopped
    tick_queue,  \* RtMidiClock._tick_queue: the 248 bytes queued, each with whether
                 \*           self.stopped was set when it was received
    reader,      \* RtMidiClock._read_ticks_task: "alive" | "dead" (ended by an
                 \*           exception) | "cancelled" (by stop())
    orphans,     \* the _read_ticks tasks of earlier start() calls that are
                 \*           alive and that _read_ticks_task no longer names
    event,       \* the asyncio.Event's flag (_tick_event / __bang_event)
    waiters,     \* the Event's waiters, in the order they began to wait
    ready,       \* the loop's FIFO of scheduled task wake-ups
    busy,        \* the loop callback that is mid-run (Idle when none is)
    pc,          \* per task: where it is in sync()
    q,           \* per task: the q of its current sync() call
    ret,         \* per task: the value its last sync() returned
    pulsed,      \* per task: a pulse was counted since its call
    hits,        \* per task: pulses counted since its call at which
                 \*           ticks % q == 0 (capped at 2)
    tick_intervals, \* _tick_intervals / bang_intervals: the deque, oldest first
    bpm,            \* self.bpm, as the fraction <<numerator, denominator>>
    runVal,      \* the interval of the last counted pulse (0: none yet)
    runLen,      \* the counted pulses, up to now, that came at that interval
                 \*           one after another (capped at MaxWindow)
    \* ---- meadowphysics.py
    counters,    \* Meadowphysics.counters
    output,      \* Meadowphysics.output
    notes,       \* MidiOut.notes: the slots whose note is sounding
    play,        \* Meadowphysics.play_task
    lastOp,      \* the operation that ran last
    before,      \* each counter's state before it
    completed,   \* the counters that completed in it (a step)
    npipe,       \* the midi.pipe calls it made
    ndispatch,   \* the updated.dispatch calls it made
    \* ---- meadowphysics.py: GridInterface
    mode,                \* GridInterface.mode
    edit_mode_counter,   \* GridInterface.edit_mode_counter, by its index
    main_mode_key_count, \* GridInterface.main_mode_key_count
    \* ---- meadowphysics.py: the play loop on a clock of clocks.py
    clock_div,   \* Meadowphysics.clock_div
    stepTick,    \* the value of ticks at the play loop's last step
                 \* (-2: no step yet, or clock_div was changed since)
    stepsAtTick, \* the steps the play loop has made at that value of ticks
    nsteps,      \* the steps made since construction, where they are counted
                 \* (the automaton left to itself)
    stale,       \* the play tasks that Meadowphysics.play_task no longer refers
                 \* to and that are neither cancelled nor done
    cancels,     \* the calls of Meadowphysics.stop since the play task's
                 \* cancellation was requested, while it is not done
    \* ---- meadowphysics.py: MidiOut with its settings, where they are tracked
    channel,     \* MidiOut.channel
    root,        \* MidiOut.root
    scale,       \* MidiOut.scale
    sounding,    \* MidiOut.notes as the set of (channel, note) it is
    note_ons,    \* the notes the last pipe requested a note-on for
    note_offs,   \* the notes the last pipe requested a note-off for
    slotNote,    \* for each slot, the (channel, note) the last pipe computed
                 \* for it, <<>> if the slot was NONE
    owed,        \* the notes with a note-on requested and no note-off since
    \* ---- meadowphysics.py: a preset stored and recalled
    preset_file, \* the "counters" list of the preset file, <<>> before a store
    at_store     \* the configuration of the counters when the file was stored

tempoVars == <<tick_intervals, bpm, runVal, runLen>>

clockVars == <<kind, ticks, stopped, tick_queue, reader, event, waiters,
               ready, busy, pc, q, ret, pulsed, hits, tempoVars, orphans>>

mpVars == <<counters, output, notes, play, lastOp, before, completed, npipe, ndispatch>>

gridVars == <<mode, edit_mode_counter, main_mode_key_count>>

taskVars == <<stale, cancels>>

midiVars == <<channel, root, scale, sounding, note_ons, note_offs, slotNote, owed>>

presetVars == <<preset_file, at_store>>

loopVars == <<clock_div, stepTick, stepsAtTick, nsteps, taskVars, midiVars, presetVars>>

vars == <<clockVars, mpVars, gridVars, loopVars>>

\* ------------------------------------------------------------------------
\* clocks.py
\* ------------------------------------------------------------------------

\* Python's a % n for integers, n # 0: the result has the sign of n
PyMod(a, n) == IF n > 0 THEN a % n ELSE 0 - ((0 - a) % (0 - n))

\* self.ticks % q != 0 is false: for q = n/d, t % q = ((t*d) % n) / d
IsMultiple(t, qq) == PyMod(t * qq[2], qq[1]) = 0

SeqToSet(s) == {s[i] : i \in 1..Len(s)}

Min2(a, b) == IF a < b THEN a ELSE b

\* the history a counted pulse leaves for the tasks it finds waiting
PulseSeen(tk) ==
    /\ pulsed' = [t \in Tasks |-> IF t \in SeqToSet(waiters) THEN TRUE ELSE pulsed[t]]
    /\ hits' = [t \in Tasks |->
                  IF t \in SeqToSet(waiters) /\ q[t][1] # 0 /\ IsMultiple(tk, q[t])
                  THEN Min2(2, hits[t] + 1) ELSE hits[t]]

\* a variant: set() is never followed by clear()
EventSetNoClear ==
    /\ pc' = [t \in Tasks |-> IF t \in SeqToSet(waiters) THEN "woken" ELSE pc[t]]
    /\ ready' = ready \o waiters
    /\ waiters' = <<>>
    /\ event' = TRUE

\* a variant: the notification is queued to one waiter, not broadcast
EventSetOne ==
    /\ pc' = [t \in Tasks |-> IF waiters # <<>> /\ t = Head(waiters) THEN "woken" ELSE pc[t]]
    /\ ready' = IF waiters # <<>> THEN Append(ready, Head(waiters)) ELSE ready
    /\ waiters' = IF waiters # <<>> THEN Tail(waiters) ELSE waiters
    /\ event' = FALSE

\* event.set(); event.clear(): every waiter's future is resolved and its
\* wake-up scheduled, in waiting order; the flag is down again afterwards
EventSetClear ==
    /\ pc' = [t \in Tasks |-> IF t \in SeqToSet(waiters) THEN "woken" ELSE pc[t]]
    /\ ready' = ready \o waiters
    /\ waiters' = <<>>
    /\ event' = FALSE

\* an I/O, timer or executor callback of the loop runs only after the
\* wake-ups scheduled before it
LoopTurn == busy = Idle /\ ready = <<>>

\* a variant: q is validated on entry
SyncEnterValidated(t, qq) ==
    /\ pc' = [pc EXCEPT ![t] = IF ~QValid(qq) THEN "rejected" ELSE "waiting"]
    /\ waiters' = IF QValid(qq) THEN Append(waiters, t) ELSE waiters
    /\ busy' = busy

\* sync(), up to its first suspension: yield from event.wait().  wait()
\* returns at once when the flag is up; the while loop then either returns
\* or spins on the raised flag.
SyncEnter(t, qq) ==
    IF event
    THEN /\ waiters' = waiters
         /\ IF qq[1] = 0
            THEN pc' = [pc EXCEPT ![t] = "failed"] /\ busy' = busy
            ELSE IF IsMultiple(ticks, qq)
                 THEN pc' = [pc EXCEPT ![t] = "returning"]
                      /\ busy' = [who |-> t, tmp |-> 0]
                 ELSE pc' = [pc EXCEPT ![t] = "spinning"] /\ busy' = busy
    ELSE /\ pc' = [pc EXCEPT ![t] = "waiting"]
         /\ waiters' = Append(waiters, t)
         /\ busy' = busy

\* a task calls sync(q)
Call(t, qq) ==
    /\ busy = Idle
    /\ pc[t] \in {"idle", "returned", "failed"}
    /\ SyncEnter(t, qq)
    /\ q' = [q EXCEPT ![t] = qq]
    /\ pulsed' = [pulsed EXCEPT ![t] = FALSE]
    /\ hits' = [hits EXCEPT ![t] = 0]
    /\ ret' = [ret EXCEPT ![t] = 0]
    /\ UNCHANGED <<kind, ticks, stopped, tick_queue, reader, event, ready>>
    /\ UNCHANGED <<tempoVars, orphans>>
    /\ UNCHANGED <<mpVars, gridVars, loopVars>>

\* the woken task resumes in sync(): while self.ticks % q != 0
WakeCheck(t) ==
    /\ busy = Idle
    /\ ready # <<>> /\ Head(ready) = t
    /\ ready' = Tail(ready)
    /\ IF q[t][1] = 0
       THEN \* ZeroDivisionError
            /\ pc' = [pc EXCEPT ![t] = "failed"]
            /\ UNCHANGED <<waiters, busy>>
       ELSE IF IsMultiple(ticks, q[t])
            THEN /\ pc' = [pc EXCEPT ![t] = "returning"]
                 /\ busy' = [who |-> t, tmp |-> 0]
                 /\ UNCHANGED waiters
            ELSE /\ pc' = [pc EXCEPT ![t] = "waiting"]
                 /\ waiters' = Append(waiters, t)
                 /\ UNCHANGED busy
    /\ UNCHANGED <<kind, ticks, stopped, tick_queue, reader, event, q, ret, pulsed, hits>>
    /\ UNCHANGED <<tempoVars, orphans>>
    /\ UNCHANGED <<mpVars, gridVars, loopVars>>

\* return self.ticks
WakeReturn(t) ==
    /\ busy = [who |-> t, tmp |-> 0]
    /\ pc[t] = "returning"
    /\ ret' = [ret EXCEPT ![t] = ticks]
    /\ pc' = [pc EXCEPT ![t] = "returned"]
    /\ busy' = Idle
    /\ UNCHANGED <<kind, ticks, stopped, tick_queue, reader, event, waiters, ready,
                   q, pulsed, hits>>
    /\ UNCHANGED <<tempoVars, orphans>>
    /\ UNCHANGED <<mpVars, gridVars, loopVars>>

RECURSIVE SumSeq(_)
\* sum(self._tick_intervals)
SumSeq(sq) == IF sq = <<>> THEN 0 ELSE Head(sq) + SumSeq(Tail(sq))

\* a variant: the deque has no maxlen
DequeAppendUnbounded(dq, x) == Append(dq, x)

\* collections.deque(maxlen=96).append(x): a full deque drops its oldest item
DequeAppend(dq, x) ==
    IF Len(dq) >= MaxWindow THEN Append(Tail(dq), x) ELSE Append(dq, x)

\* 1 / (sum(intervals) / len(intervals)) / 24 * 60, as an exact fraction
Bpm(dq) == <<60 * Len(dq), 24 * SumSeq(dq)>>

\* the intervals that may pass between two counted pulses
Intervals == 1..MaxInterval

\* pulses that come at one steady interval
Steady == {1}

\* a counted pulse, d after the last one (or after construction): the
\* interval is appended and bpm recomputed
TempoUpdate(d) ==
    /\ tick_intervals' = DequeAppend(tick_intervals, d)
    /\ bpm' = Bpm(DequeAppend(tick_intervals, d))
    /\ runVal' = d
    /\ runLen' = IF d = runVal THEN Min2(MaxWindow, runLen + 1) ELSE 1

\* FooClock.__bang_handler
BangHandler(d) ==
    /\ kind = "FooClock"
    /\ LoopTurn
    /\ ticks < MaxTicks
    /\ ticks' = ticks + 1
    /\ EventSetClear
    /\ PulseSeen(ticks + 1)
    /\ UNCHANGED <<kind, stopped, tick_queue, reader, busy, q, ret>>
    /\ TempoUpdate(d)
    /\ UNCHANGED orphans
    /\ UNCHANGED <<mpVars, gridVars, loopVars>>

\* FooClock.__start_handler
StartHandler ==
    /\ kind = "FooClock"
    /\ LoopTurn
    /\ ticks' = 0
    /\ UNCHANGED <<kind, stopped, tick_queue, reader, event, waiters, ready, busy,
                   pc, q, ret, pulsed, hits>>
    /\ UNCHANGED <<tempoVars, orphans>>
    /\ UNCHANGED <<mpVars, gridVars, loopVars>>

\* InaccurateTempoClock.__tick: one turn of its loop
TempoTick ==
    /\ kind = "InaccurateTempoClock"
    /\ LoopTurn
    /\ ticks < MaxTicks
    /\ ticks' = ticks + 1
    /\ EventSetClear
    /\ PulseSeen(ticks + 1)
    /\ UNCHANGED <<kind, stopped, tick_queue, reader, busy, q, ret>>
    /\ UNCHANGED <<tempoVars, orphans>>
    /\ UNCHANGED <<mpVars, gridVars, loopVars>>

\* the MIDI input port is open: start() opens it, stop() closes it
PortOpen == reader # "cancelled"

\* RtMidiClock._on_midi_message, on the MIDI thread: 248 (clock)
MidiClockByte ==
    /\ kind = "RtMidiClock"
    /\ PortOpen
    /\ Len(tick_queue) < MaxQueue
    /\ tick_queue' = Append(tick_queue, stopped)
    /\ UNCHANGED <<kind, ticks, stopped, reader, event, waiters, ready, busy,
                   pc, q, ret, pulsed, hits>>
    /\ UNCHANGED <<tempoVars, orphans>>
    /\ UNCHANGED <<mpVars, gridVars, loopVars>>

\* 250 (start)
MidiStart ==
    /\ kind = "RtMidiClock"
    /\ PortOpen
    /\ ticks' = 0 - 1
    /\ stopped' = FALSE
    /\ UNCHANGED <<kind, tick_queue, reader, event, waiters, ready, busy,
                   pc, q, ret, pulsed, hits>>
    /\ UNCHANGED <<tempoVars, orphans>>
    /\ UNCHANGED <<mpVars, gridVars, loopVars>>

\* 251 (continue)
MidiContinue ==
    /\ kind = "RtMidiClock"
    /\ PortOpen
    /\ stopped' = FALSE
    /\ UNCHANGED <<kind, ticks, tick_queue, reader, event, waiters, ready, busy,
                   pc, q, ret, pulsed, hits>>
    /\ UNCHANGED <<tempoVars, orphans>>
    /\ UNCHANGED <<mpVars, gridVars, loopVars>>

\* 252 (stop)
MidiStop ==
    /\ kind = "RtMidiClock"
    /\ PortOpen
    /\ stopped' = TRUE
    /\ UNCHANGED <<kind, ticks, tick_queue, reader, event, waiters, ready, busy,
                   pc, q, ret, pulsed, hits>>
    /\ UNCHANGED <<tempoVars, orphans>>
    /\ UNCHANGED <<mpVars, gridVars, loopVars>>

\* RtMidiClock._read_ticks: the executor's _tick_queue.get returned a byte;
\* the task tests self.stopped and loads self.ticks
ReadTicksLoad ==
    /\ kind = "RtMidiClock"
    /\ reader = "alive" \/ orphans > 0
    /\ LoopTurn
    /\ tick_queue # <<>>
    /\ tick_queue' = Tail(tick_queue)
    /\ stopped \/ ticks < MaxTicks
    /\ IF stopped
       THEN busy' = busy
       ELSE busy' = [who |-> "reader", tmp |-> ticks]
    /\ UNCHANGED <<kind, ticks, stopped, reader, event, waiters, ready,
                   pc, q, ret, pulsed, hits>>
    /\ UNCHANGED <<tempoVars, orphans>>
    /\ UNCHANGED <<mpVars, gridVars, loopVars>>

\* ... and stores self.ticks (+= 1), then self._tick_event.set(); clear()
ReadTicksStore(d) ==
    /\ busy.who = "reader"
    /\ ticks' = busy.tmp + 1
    /\ busy' = Idle
    /\ EventSetClear
    /\ PulseSeen(busy.tmp + 1)
    /\ UNCHANGED <<kind, stopped, tick_queue, reader, q, ret>>
    /\ TempoUpdate(d)
    /\ UNCHANGED orphans
    /\ UNCHANGED <<mpVars, gridVars, loopVars>>

\* _tick_queue.get(True, 0.250) finds no byte for 250 ms and raises
\* queue.Empty, which ends the _read_ticks task
ReadTicksTimeout ==
    /\ kind = "RtMidiClock"
    /\ LoopTurn
    /\ tick_queue = <<>>
    /\ \/ reader = "alive" /\ reader' = "dead" /\ orphans' = orphans
       \/ orphans > 0 /\ orphans' = orphans - 1 /\ reader' = reader
    /\ UNCHANGED <<kind, ticks, stopped, tick_queue, event, waiters, ready, busy,
                   pc, q, ret, pulsed, hits>>
    /\ UNCHANGED tempoVars
    /\ UNCHANGED <<mpVars, gridVars, loopVars>>

\* RtMidiClock.start: a new _read_ticks task is created and
\* _read_ticks_task names it; the task it named before is neither awaited
\* nor cancelled
ClockStart ==
    /\ kind = "RtMidiClock"
    /\ busy = Idle
    /\ orphans < MaxOrphans
    /\ orphans' = IF reader = "alive" THEN orphans + 1 ELSE orphans
    /\ reader' = "alive"
    /\ UNCHANGED <<kind, ticks, stopped, tick_queue, event, waiters, ready, busy,
                   pc, q, ret, pulsed, hits>>
    /\ UNCHANGED tempoVars
    /\ UNCHANGED <<mpVars, gridVars, loopVars>>

\* RtMidiClock.stop: close_port(), then _read_ticks_task.cancel()
ClockStop ==
    /\ kind = "RtMidiClock"
    /\ busy = Idle
    /\ reader # "cancelled"
    /\ reader' = "cancelled"
    /\ UNCHANGED <<kind, ticks, stopped, tick_queue, event, waiters, ready, busy,
                   pc, q, ret, pulsed, hits>>
    /\ UNCHANGED <<tempoVars, orphans>>
    /\ UNCHANGED <<mpVars, gridVars, loopVars>>

\* ------------------------------------------------------------------------
\* meadowphysics.py: Counter
\* ------------------------------------------------------------------------

Idx == 0..(NumCounters - 1)

Rules == {"NONE", "INC", "DEC", "MAX", "MIN", "RAND", "POLE", "STOP"}

\* Counter.__init__
CounterInit(index) ==
    [value |-> MaxX, start_value |-> MaxX, range_min |-> MaxX, range_max |-> MaxX,
     speed |-> 0, ticks |-> 0,
     events |-> [j \in Idx |-> IF j = index THEN "TRIGGER" ELSE "NONE"],
     sync |-> [j \in Idx |-> j = index],
     rule_dest |-> index, rule |-> "INC", state |-> "STOPPED"]

\* a variant: a delayed start leaves value alone until the counter is activated
CounterStartKeepsValue(c, delayed) ==
    IF delayed THEN [c EXCEPT !.state = "READY"]
    ELSE [c EXCEPT !.value = c.start_value, !.state = "RUNNING"]

\* a variant: start begins a fresh period of the sub-divider
CounterStartFreshPeriod(c, delayed) ==
    [c EXCEPT !.value = c.start_value,
              !.state = IF delayed THEN "READY" ELSE "RUNNING",
              !.ticks = c.speed]

\* Counter.start
CounterStart(c, delayed) ==
    [c EXCEPT !.value = c.start_value,
              !.state = IF delayed THEN "READY" ELSE "RUNNING"]

\* Counter.stop
CounterStop(c) == [c EXCEPT !.value = c.start_value, !.state = "STOPPED"]

\* a variant: ticks is reloaded with speed + 1
CounterDecrementLongPeriod(c) ==
    IF c.ticks = 0
    THEN [c EXCEPT !.value = c.value - 1, !.ticks = c.speed + 1]
    ELSE [c EXCEPT !.ticks = c.ticks - 1]

\* a variant: value is decremented whatever ticks is
CounterDecrementNoDivider(c) == [c EXCEPT !.value = c.value - 1]

\* Counter.decrement
CounterDecrement(c) ==
    IF c.ticks = 0
    THEN [c EXCEPT !.value = c.value - 1, !.ticks = c.speed]
    ELSE [c EXCEPT !.ticks = c.ticks - 1]

\* a variant: INC does not wrap at range_max
CounterApplyRuleNoWrap(c, rule, r) ==
    CASE rule = "INC" -> [c EXCEPT !.start_value = c.start_value + 1]
      [] rule = "MAX" -> [c EXCEPT !.start_value = c.range_max]
      [] rule = "STOP" -> CounterStop(c)
      [] OTHER -> c

\* a variant: DEC stays at range_min instead of wrapping to range_max
CounterApplyRuleDecClamp(c, rule, r) ==
    CASE rule = "INC" ->
           [c EXCEPT !.start_value = IF c.start_value + 1 > c.range_max
                                     THEN c.range_min ELSE c.start_value + 1]
      [] rule = "DEC" ->
           [c EXCEPT !.start_value = IF c.start_value - 1 < c.range_min
                                     THEN c.range_min ELSE c.start_value - 1]
      [] rule = "MAX" -> [c EXCEPT !.start_value = c.range_max]
      [] rule = "MIN" -> [c EXCEPT !.start_value = c.range_min]
      [] rule = "RAND" -> [c EXCEPT !.start_value = r]
      [] rule = "POLE" ->
           [c EXCEPT !.start_value =
               IF c.start_value - c.range_min > c.range_max - c.start_value
               THEN c.range_min ELSE c.range_max]
      [] rule = "STOP" -> CounterStop(c)
      [] OTHER -> c

\* a variant: POLE resolves a tie toward range_min
CounterApplyRulePoleTieMin(c, rule, r) ==
    CASE rule = "INC" ->
           [c EXCEPT !.start_value = IF c.start_value + 1 > c.range_max
                                     THEN c.range_min ELSE c.start_value + 1]
      [] rule = "DEC" ->
           [c EXCEPT !.start_value = IF c.start_value - 1 < c.range_min
                                     THEN c.range_max ELSE c.start_value - 1]
      [] rule = "MAX" -> [c EXCEPT !.start_value = c.range_max]
      [] rule = "MIN" -> [c EXCEPT !.start_value = c.range_min]
      [] rule = "RAND" -> [c EXCEPT !.start_value = r]
      [] rule = "POLE" ->
           [c EXCEPT !.start_value =
               IF c.start_value - c.range_min >= c.range_max - c.start_value
               THEN c.range_min ELSE c.range_max]
      [] rule = "STOP" -> CounterStop(c)
      [] OTHER -> c

\* a variant: MIN and MAX set value along with start_value
CounterApplyRuleSetsValue(c, rule, r) ==
    CASE rule = "INC" ->
           [c EXCEPT !.start_value = IF c.start_value + 1 > c.range_max
                                     THEN c.range_min ELSE c.start_value + 1]
      [] rule = "DEC" ->
           [c EXCEPT !.start_value = IF c.start_value - 1 < c.range_min
                                     THEN c.range_max ELSE c.start_value - 1]
      [] rule = "MAX" -> [c EXCEPT !.start_value = c.range_max, !.value = c.range_max]
      [] rule = "MIN" -> [c EXCEPT !.start_value = c.range_min, !.value = c.range_min]
      [] rule = "RAND" -> [c EXCEPT !.start_value = r]
      [] rule = "POLE" ->
           [c EXCEPT !.start_value =
               IF c.start_value - c.range_min > c.range_max - c.start_value
               THEN c.range_min ELSE c.range_max]
      [] rule = "STOP" -> CounterStop(c)
      [] OTHER -> c

\* Counter.apply_rule; r is what random.randint(range_min, range_max) draws
CounterApplyRule(c, rule, r) ==
    CASE rule = "INC" ->
           [c EXCEPT !.start_value = IF c.start_value + 1 > c.range_max
                                     THEN c.range_min ELSE c.start_value + 1]
      [] rule = "DEC" ->
           [c EXCEPT !.start_value = IF c.start_value - 1 < c.range_min
                                     THEN c.range_max ELSE c.start_value - 1]
      [] rule = "MAX" -> [c EXCEPT !.start_value = c.range_max]
      [] rule = "MIN" -> [c EXCEPT !.start_value = c.range_min]
      [] rule = "RAND" -> [c EXCEPT !.start_value = r]
      [] rule = "POLE" ->
           [c EXCEPT !.start_value =
               IF c.start_value - c.range_min > c.range_max - c.start_value
               THEN c.range_min ELSE c.range_max]
      [] rule = "STOP" -> CounterStop(c)
      [] OTHER -> c

\* ------------------------------------------------------------------------
\* meadowphysics.py: Meadowphysics
\* ------------------------------------------------------------------------

\* step: the TRIGGER slots of the previous step are cleared
ClearTriggers(out) == [i \in Idx |-> IF out[i] = "TRIGGER" THEN "NONE" ELSE out[i]]

\* a variant: a TOGGLE event always switches the slot on
ApplyEventToggleOn(ev, o) ==
    IF ev = "TRIGGER" THEN "TRIGGER"
    ELSE IF ev = "TOGGLE" THEN "TOGGLE"
    ELSE o

\* step: what a completing counter's events[j] does to output[j]
ApplyEvent(ev, o) ==
    IF ev = "TRIGGER" THEN "TRIGGER"
    ELSE IF ev = "TOGGLE" THEN (IF o # "TOGGLE" THEN "TOGGLE" ELSE "NONE")
    ELSE o

\* a variant: the counters a completing counter syncs are started delayed
SyncStartDelayed(c) == CounterStart(c, TRUE)

\* step: self.counters[j].start() of a counter j that a completing counter syncs
SyncStart(c) == CounterStart(c, FALSE)

\* a variant: the rule is applied before the completing counter is stopped
CompleteRuleFirst(i, cs, out, r) ==
    LET c0 == cs[i]
        ruled0 == [cs EXCEPT ![c0.rule_dest] =
                      CounterApplyRule(cs[c0.rule_dest], c0.rule, r)]
        ruled == [ruled0 EXCEPT ![i] = CounterStop(ruled0[i])]
        c == ruled[i]
    IN [cs |-> [j \in Idx |-> IF c.sync[j] THEN SyncStart(ruled[j]) ELSE ruled[j]],
        out |-> [j \in Idx |-> ApplyEvent(c.events[j], out[j])]]

\* a variant: the synced counters are started before the rule is applied
CompleteSyncFirst(i, cs, out, r) ==
    LET stopped_cs == [cs EXCEPT ![i] = CounterStop(cs[i])]
        c == stopped_cs[i]
        synced == [j \in Idx |-> IF c.sync[j] THEN SyncStart(stopped_cs[j])
                                 ELSE stopped_cs[j]]
    IN [cs |-> [synced EXCEPT ![c.rule_dest] =
                   CounterApplyRule(synced[c.rule_dest], c.rule, r)],
        out |-> [j \in Idx |-> ApplyEvent(c.events[j], out[j])]]

\* step: counter i has completed (counter.value == -1)
Complete(i, cs, out, r) ==
    LET stopped_cs == [cs EXCEPT ![i] = CounterStop(cs[i])]
        c == stopped_cs[i]
        ruled == [stopped_cs EXCEPT ![c.rule_dest] =
                      CounterApplyRule(stopped_cs[c.rule_dest], c.rule, r)]
    IN [cs |-> [j \in Idx |-> IF c.sync[j] THEN SyncStart(ruled[j]) ELSE ruled[j]],
        out |-> [j \in Idx |-> ApplyEvent(c.events[j], out[j])]]

\* step: the body of the loop over the counters, for counter i
ProcessCounter(i, s, rnd) ==
    LET c == s.cs[i] IN
    IF c.state = "READY"
    THEN [s EXCEPT !.cs[i] = CounterStart(c, FALSE)]
    ELSE IF c.state = "RUNNING"
    THEN LET d == CounterDecrement(c) IN
         IF d.value = 0 - 1
         THEN LET done == Complete(i, [s.cs EXCEPT ![i] = d], s.out, rnd[i])
              IN [cs |-> done.cs, out |-> done.out,
                  completed |-> s.completed \cup {i}]
         ELSE [s EXCEPT !.cs[i] = d]
    ELSE s

RECURSIVE ProcessFrom(_, _, _)
\* step: for i in range(COUNTERS), from counter i on
ProcessFrom(i, s, rnd) ==
    IF i >= NumCounters THEN s
    ELSE ProcessFrom(i + 1, ProcessCounter(i, s, rnd), rnd)

\* MidiOut.pipe: the notes that sound afterwards (channel, root and scale
\* are fixed, so that a note is its slot)
Pipe(out) == {i \in Idx : out[i] # "NONE"}

RECURSIVE ProcessDown(_, _, _)
\* the loop over the counters run from the last counter to the first
ProcessDown(i, s, rnd) ==
    IF i < 0 THEN s
    ELSE ProcessDown(i - 1, ProcessCounter(i, s, rnd), rnd)

\* a variant: the counters are processed in descending index order
StepResultDescending(cs, out, rnd) ==
    LET s == ProcessDown(NumCounters - 1,
                         [cs |-> cs, out |-> ClearTriggers(out), completed |-> {}], rnd)
    IN [cs |-> s.cs, out |-> s.out, completed |-> s.completed,
        notes |-> Pipe(s.out), npipe |-> 1, ndispatch |-> 1]

\* a variant: the TRIGGER slots are not cleared at the start of a step
StepResultNoClear(cs, out, rnd) ==
    LET s == ProcessFrom(0, [cs |-> cs, out |-> out, completed |-> {}], rnd)
    IN [cs |-> s.cs, out |-> s.out, completed |-> s.completed,
        notes |-> Pipe(s.out), npipe |-> 1, ndispatch |-> 1]

\* a variant: the output is given to the MIDI sink before the counters are processed
StepResultPipeFirst(cs, out, rnd) ==
    LET s == ProcessFrom(0, [cs |-> cs, out |-> ClearTriggers(out), completed |-> {}], rnd)
    IN [cs |-> s.cs, out |-> s.out, completed |-> s.completed,
        notes |-> Pipe(ClearTriggers(out)), npipe |-> 1, ndispatch |-> 1]

\* Meadowphysics.step
StepResult(cs, out, rnd) ==
    LET s == ProcessFrom(0, [cs |-> cs, out |-> ClearTriggers(out), completed |-> {}], rnd)
    IN [cs |-> s.cs, out |-> s.out, completed |-> s.completed,
        notes |-> Pipe(s.out), npipe |-> 1, ndispatch |-> 1]

\* what random.randint can draw for the counters whose rule is RAND
Draws(cs) ==
    {rnd \in [Idx -> 1..MaxX] :
        \A i \in Idx :
            IF cs[i].rule = "RAND"
            THEN rnd[i] \in cs[cs[i].rule_dest].range_min..cs[cs[i].rule_dest].range_max
            ELSE rnd[i] = 1}

\* the automaton takes a step
DoStep ==
    \E rnd \in Draws(counters) :
        LET s == StepResult(counters, output, rnd) IN
        /\ counters' = s.cs
        /\ output' = s.out
        /\ completed' = s.completed
        /\ notes' = s.notes
        /\ npipe' = s.npipe
        /\ ndispatch' = s.ndispatch
        /\ before' = [i \in Idx |-> counters[i].state]
        /\ lastOp' = "step"

\* a variant: start_counter starts the counter at once
StartCounterImmediate(index) ==
    /\ counters' = [counters EXCEPT ![index] = CounterStart(counters[index], FALSE)]
    /\ before' = [i \in Idx |-> counters[i].state]
    /\ lastOp' = "start_counter"
    /\ completed' = {}
    /\ npipe' = 0
    /\ ndispatch' = 0
    /\ UNCHANGED <<output, notes, play>>
    /\ UNCHANGED <<clockVars, gridVars, loopVars>>

\* Meadowphysics.start_counter
StartCounter(index) ==
    /\ counters' = [counters EXCEPT ![index] = CounterStart(counters[index], TRUE)]
    /\ before' = [i \in Idx |-> counters[i].state]
    /\ lastOp' = "start_counter"
    /\ completed' = {}
    /\ npipe' = 0
    /\ ndispatch' = 0
    /\ UNCHANGED <<output, notes, play>>
    /\ UNCHANGED <<clockVars, gridVars, loopVars>>

\* a variant: stop_counter clears every TOGGLE slot
StopCounterClearsAllToggles(index) ==
    /\ counters' = [counters EXCEPT ![index] = CounterStop(counters[index])]
    /\ output' = [i \in Idx |-> IF output[i] = "TOGGLE" THEN "NONE" ELSE output[i]]
    /\ before' = [i \in Idx |-> counters[i].state]
    /\ lastOp' = "stop_counter"
    /\ completed' = {}
    /\ npipe' = 0
    /\ ndispatch' = 0
    /\ UNCHANGED <<notes, play>>
    /\ UNCHANGED <<clockVars, gridVars, loopVars>>

\* a variant: stop_counter flips the slots the counter has a TOGGLE event on
StopCounterResultFlips(cs, out, index) ==
    [cs |-> [cs EXCEPT ![index] = CounterStop(cs[index])],
     out |-> [i \in Idx |->
                IF cs[index].events[i] = "TOGGLE"
                THEN (IF out[i] = "TOGGLE" THEN "NONE" ELSE "TOGGLE")
                ELSE out[i]]]

\* Meadowphysics.stop_counter: what it makes of the counters and the output
StopCounterResult(cs, out, index) ==
    [cs |-> [cs EXCEPT ![index] = CounterStop(cs[index])],
     out |-> [i \in Idx |->
                IF cs[index].events[i] = "TOGGLE" /\ out[i] = "TOGGLE"
                THEN "NONE" ELSE out[i]]]

\* Meadowphysics.stop_counter
StopCounter(index) ==
    /\ counters' = StopCounterResult(counters, output, index).cs
    /\ output' = StopCounterResult(counters, output, index).out
    /\ before' = [i \in Idx |-> counters[i].state]
    /\ lastOp' = "stop_counter"
    /\ completed' = {}
    /\ npipe' = 0
    /\ ndispatch' = 0
    /\ UNCHANGED <<notes, play>>
    /\ UNCHANGED <<clockVars, gridVars, loopVars>>

\* a variant: only the RUNNING counters get start_value = range_min
ResetResultRunningOnly(cs) ==
    [i \in Idx |->
        IF cs[i].state = "RUNNING"
        THEN CounterStart([cs[i] EXCEPT !.start_value = cs[i].range_min], TRUE)
        ELSE cs[i]]

\* a variant: the counters are made anew
ResetResultRecreates(cs) ==
    [i \in Idx |-> IF i = 0 THEN [CounterInit(i) EXCEPT !.state = "READY"]
                   ELSE CounterInit(i)]

\* Meadowphysics.reset_counters
ResetResult(cs) ==
    [i \in Idx |->
        LET c == [cs[i] EXCEPT !.start_value = cs[i].range_min]
        IN IF c.state = "RUNNING" THEN CounterStart(c, TRUE) ELSE c]

\* MeadowphysicsApp.action_reset
ActionReset ==
    /\ counters' = ResetResult(counters)
    /\ before' = [i \in Idx |-> counters[i].state]
    /\ lastOp' = "reset_counters"
    /\ completed' = {}
    /\ npipe' = 0
    /\ ndispatch' = 1
    /\ UNCHANGED <<output, notes, play>>
    /\ UNCHANGED <<clockVars, gridVars, loopVars>>

\* a variant: a play task that awaits the clock is not taken as live
PlayLiveNotAwaiting == play \in {"woken", "cancelling"}

\* the play task exists and is not done
PlayLive == play \in {"sync", "woken", "cancelling"}

\* the places of Meadowphysics.play at which the coroutine is suspended
\* (await self.clock.sync), waiting or with its wake-up scheduled
Suspended == {"sync", "woken"}

\* MeadowphysicsApp.action_start_stop
ActionStartStop ==
    /\ UNCHANGED <<clockVars, gridVars>>
    /\ UNCHANGED <<clock_div, stepTick, stepsAtTick, nsteps, midiVars, presetVars>>
    /\ IF PlayLive
       THEN \* Meadowphysics.stop: play_task.cancel(), then reset_counters()
            /\ play' = "cancelling"
            /\ cancels' = IF play = "cancelling" THEN Min2(cancels + 1, MaxCancels) ELSE 1
            /\ UNCHANGED stale
            /\ counters' = ResetResult(counters)
            /\ before' = [i \in Idx |-> counters[i].state]
            /\ lastOp' = "stop"
            /\ completed' = {}
            /\ npipe' = 0
            /\ ndispatch' = 1
            /\ UNCHANGED <<output, notes>>
       ELSE \* Meadowphysics.start: the play task runs to its first await
            \* (play_task is overwritten: a task it referred to goes on)
            /\ play' = "sync"
            /\ stale' = IF play \in Suspended THEN stale + 1 ELSE stale
            /\ cancels' = 0
            /\ before' = [i \in Idx |-> counters[i].state]
            /\ lastOp' = "start"
            /\ completed' = {}
            /\ npipe' = 0
            /\ ndispatch' = 0
            /\ UNCHANGED <<counters, output, notes>>

\* the clock resolves the sync the play task awaits: its wake-up is scheduled
ClockResolve ==
    /\ play = "sync"
    /\ play' = "woken"
    /\ UNCHANGED <<counters, output, notes, lastOp, before, completed, npipe, ndispatch>>
    /\ UNCHANGED <<clockVars, gridVars, loopVars>>

\* Meadowphysics.play: the task resumes, steps and awaits the next sync
PlayStep ==
    /\ play = "woken"
    /\ DoStep
    /\ play' = "sync"
    /\ UNCHANGED <<clockVars, gridVars, loopVars>>

\* the cancelled task is resumed with CancelledError at its await and ends
CancelDelivered ==
    /\ play = "cancelling"
    /\ play' = "done"
    /\ UNCHANGED <<counters, output, notes, lastOp, before, completed, npipe, ndispatch>>
    /\ UNCHANGED <<clockVars, gridVars, loopVars>>

\* GridInterface.__init__
GridInit ==
    /\ mode = "MAIN"
    /\ edit_mode_counter = 0
    /\ main_mode_key_count = [i \in Idx |-> 0]

\* SCALES: the scales the model switches between
ScaleTable ==
    [major     |-> <<0, 2, 4, 5, 7, 9, 11, 12>>,
     chromatic |-> <<0, 1, 2, 3, 4, 5, 6, 7, 8>>]

ScaleNames == {"major", "chromatic"}

\* the values of the "channel" spin button that the model uses (1..16 in the source)
Channels == {1, 2}

\* the values of the "root" spin button that the model uses (24..127 in the source)
Roots == {60, 62}

\* MidiOut.__init__
MidiInit ==
    /\ channel = 1
    /\ root = 60
    /\ scale = "major"
    /\ sounding = {}
    /\ note_ons = {}
    /\ note_offs = {}
    /\ slotNote = [i \in Idx |-> <<>>]
    /\ owed = {}

\* MidiOut.pipe: new_note for slot i
NewNote(i, ch, rt, sc) == <<ch, rt + ScaleTable[sc][i + 1]>>

\* MidiOut.pipe: new_notes
NewNotes(out, ch, rt, sc) ==
    {NewNote(i, ch, rt, sc) : i \in {j \in Idx : out[j] # "NONE"}}

\* a variant: a note-off is requested for the note that a slot gone to NONE
\* has under the settings as they are
NoteOffsBySlot(old, new, out, ch, rt, sc) ==
    {NewNote(i, ch, rt, sc) : i \in {j \in Idx : out[j] = "NONE"}} \cap old

\* MidiOut.pipe: note_offs
NoteOffs(old, new, out, ch, rt, sc) == old \ new

\* MidiOut.pipe: note_ons
NoteOns(old, new) == new \ old

\* Meadowphysics.__init__: self.clock_div = 16; no step made yet
PlayLoopInit ==
    /\ clock_div = 16
    /\ stepTick = 0 - 2
    /\ stepsAtTick = 0
    /\ nsteps = 0
    /\ stale = 0
    /\ cancels = 0
    /\ MidiInit
    /\ preset_file = <<>>
    /\ at_store = <<>>

\* Meadowphysics.__init__
MpInit ==
    /\ counters = [i \in Idx |->
                     IF i = 0 THEN [CounterInit(i) EXCEPT !.state = "READY"]
                     ELSE CounterInit(i)]
    /\ output = [i \in Idx |-> "NONE"]
    /\ notes = {}
    /\ play = "none"
    /\ lastOp = "init"
    /\ before = [i \in Idx |-> "STOPPED"]
    /\ completed = {}
    /\ npipe = 0
    /\ ndispatch = 0

\* the application: main() starts the play task; the grid and the keyboard
\* start, stop and reset counters
PlayNext ==
    \/ ActionStartStop
    \/ ClockResolve
    \/ PlayStep
    \/ CancelDelivered
    \/ \E i \in Idx : StartCounter(i)
    \/ \E i \in Idx : StopCounter(i)
    \/ ActionReset

\* A preset file, as store_preset writes it.  Counter 0 has been edited on
\* the grid: its events are [TRIGGER, TOGGLE, NONE, ...], its rule acts on
\* counter 1, its rule and sync vary, and it was running when the preset was
\* stored.  The other counters keep what Counter.__init__ gave them and were
\* stopped.  Counters 0 and 1 have the range 1..MaxX, the others the
\* constructor's.
PresetRules == {"MAX", "STOP"}

ScenarioEvents == [j \in Idx |-> IF j = 0 THEN "TRIGGER" ELSE IF j = 1 THEN "TOGGLE" ELSE "NONE"]

SyncChoices == {[j \in Idx |-> j = 0], [j \in Idx |-> j = 1]}

PresetCounter(i, rule, dest, sy) ==
    IF i = 0
    THEN [range_min |-> 1, range_max |-> MaxX, rule_dest |-> dest, rule |-> rule,
          state |-> "RUNNING", events |-> ScenarioEvents, sync |-> sy]
    ELSE [range_min |-> IF i = 1 THEN 1 ELSE MaxX, range_max |-> MaxX,
          rule_dest |-> i, rule |-> "INC", state |-> "STOPPED",
          events |-> [j \in Idx |-> IF j = i THEN "TRIGGER" ELSE "NONE"],
          sync |-> [j \in Idx |-> j = i]]

Presets ==
    {[i \in Idx |-> PresetCounter(i, rule, dest, sy)] :
        rule \in PresetRules, dest \in {1}, sy \in SyncChoices}

\* MeadowphysicsApp.recall_preset: what it makes of the counters
RecallResult(cs, p) ==
    ResetResult(
        [i \in Idx |-> [cs[i] EXCEPT
            !.range_min = p[i].range_min, !.range_max = p[i].range_max,
            !.rule_dest = p[i].rule_dest, !.rule = p[i].rule,
            !.state = p[i].state, !.events = p[i].events, !.sync = p[i].sync]])

\* Meadowphysics.step, whoever calls it
Step ==
    /\ DoStep
    /\ UNCHANGED play
    /\ UNCHANGED <<clockVars, gridVars, loopVars>>

\* the automaton under its operations
MpNext ==
    \/ Step
    \/ \E i \in Idx : StartCounter(i)
    \/ \E i \in Idx : StopCounter(i)
    \/ ActionReset

\* the clock after construction
ClockInit(k) ==
    /\ kind = k
    /\ ticks = IF k = "RtMidiClock" THEN 0 - 1 ELSE 0
    /\ stopped = FALSE
    /\ tick_queue = <<>>
    /\ reader = IF k = "RtMidiClock" THEN "alive" ELSE "none"
    /\ event = FALSE
    /\ waiters = <<>>
    /\ ready = <<>>
    /\ busy = Idle
    /\ pc = [t \in Tasks |-> "idle"]
    /\ q = [t \in Tasks |-> <<1, 1>>]
    /\ ret = [t \in Tasks |-> 0]
    /\ pulsed = [t \in Tasks |-> FALSE]
    /\ hits = [t \in Tasks |-> 0]
    /\ orphans = 0
    /\ tick_intervals = <<>>
    /\ bpm = <<120, 1>>
    /\ runVal = 0
    /\ runLen = 0

\* FooClock and InaccurateTempoClock: everything runs on the loop
LoopClockNext ==
    \/ \E t \in Tasks, qq \in QValues : Call(t, qq)
    \/ \E t \in Tasks : WakeCheck(t)
    \/ \E t \in Tasks : WakeReturn(t)
    \/ \E d \in Steady : BangHandler(d)
    \/ StartHandler
    \/ TempoTick

ClockNext ==
    \/ \E t \in Tasks, qq \in QValues : Call(t, qq)
    \/ \E t \in Tasks : WakeCheck(t)
    \/ \E t \in Tasks : WakeReturn(t)
    \/ \E d \in Steady : BangHandler(d)
    \/ StartHandler
    \/ TempoTick
    \/ MidiClockByte
    \/ MidiStart
    \/ MidiContinue
    \/ MidiStop
    \/ ReadTicksLoad
    \/ \E d \in Steady : ReadTicksStore(d)
    \/ ReadTicksTimeout

\* the automaton, constructed, with a preset recalled
InitMP ==
    /\ ClockInit("FooClock")
    /\ GridInit
    /\ PlayLoopInit
    /\ \E p \in Presets :
          counters = RecallResult([i \in Idx |->
                        IF i = 0 THEN [CounterInit(i) EXCEPT !.state = "READY"]
                        ELSE CounterInit(i)], p)
    /\ output = [i \in Idx |-> "NONE"]
    /\ notes = {}
    /\ play = "none"
    /\ lastOp = "recall_preset"
    /\ before = [i \in Idx |-> IF i = 0 THEN "READY" ELSE "STOPPED"]
    /\ completed = {}
    /\ npipe = 0
    /\ ndispatch = 1

\* every clock
InitClock == (\E k \in Kinds : ClockInit(k)) /\ MpInit /\ GridInit /\ PlayLoopInit

SpecClock == InitClock /\ [][ClockNext]_vars

\* the clocks that are fed on the loop itself
InitLoopClock ==
    /\ \E k \in {"FooClock", "InaccurateTempoClock"} : ClockInit(k)
    /\ MpInit
    /\ GridInit
    /\ PlayLoopInit

SpecLoopClock == InitLoopClock /\ [][LoopClockNext]_vars

\* the automaton as the application runs it, from construction
InitPlay == ClockInit("FooClock") /\ MpInit /\ GridInit /\ PlayLoopInit

SpecPlay == InitPlay /\ [][PlayNext]_vars

\* the automaton under its operations, from a recalled preset
SpecMP == InitMP /\ [][MpNext]_vars


\* ------------------------------------------------------------------------
\* properties of clocks.py
\* ------------------------------------------------------------------------

\* C1: whenever sync(q) with q >= 1 has returned a tick t, t % q = 0.
C1_SyncReturnsMultiple ==
    \A t \in Tasks :
        (pc[t] = "returned" /\ QValid(q[t]) /\ q[t][2] = 1)
            => PyMod(ret[t], q[t][1]) = 0

\* C5: a pulse wakes every waiter; each waiter re-checks its own q, returns
\* at the first pulse counted since its call at which ticks % q = 0 and
\* otherwise waits on, whatever the other waiters do.
C5_BroadcastIndependent ==
    /\ [](\A t \in Tasks :
            /\ pc[t] = "waiting" => hits[t] = 0
            /\ pc[t] = "woken" => hits[t] <= 1
            /\ pc[t] \in {"returning", "returned"} => hits[t] = 1
            /\ pc[t] = "returned" => IsMultiple(ret[t], q[t]))
    /\ [][ticks' = ticks + 1 =>
            \A t \in Tasks : pc[t] = "waiting" => pc'[t] = "woken"]_vars

\* one pulse lets the waiter with q = 1 return while the waiter with q = 2,
\* woken by the same pulse, waits on
C5_Witness ==
    /\ pc["t1"] = "returned" /\ q["t1"] = <<1, 1>> /\ ret["t1"] = ticks
    /\ ticks % 2 = 1
    /\ pc["t2"] = "waiting" /\ q["t2"] = <<2, 1>> /\ pulsed["t2"]

\* C6: sync() returns only after a pulse counted since the call, also when
\* ticks % q = 0 held at the call; it never spins on a raised event.
C6_EdgeTriggered ==
    \A t \in Tasks :
        /\ pc[t] \in {"returning", "returned"} => pulsed[t]
        /\ pc[t] # "spinning"

\* a task called sync(2) at ticks = 2 and is suspended, no pulse counted yet
C6_Witness ==
    /\ kind = "InaccurateTempoClock"
    /\ ticks = 2
    /\ \E t \in Tasks : pc[t] = "waiting" /\ q[t] = <<2, 1>> /\ ~pulsed[t]

C2_ValueInRange ==
    \A i \in Idx :
        /\ counters[i].range_min - 1 <= counters[i].value
        /\ counters[i].value <= counters[i].range_max

\* C2, as the code has it: between operations every counter's value lies in
\* [0, range_max].  A running counter counts down to 0 whatever its
\* range_min is; the value 0 - 1 exists only inside step, which stops the
\* counter and puts it back to start_value at once.
C2_ValueFromZeroToRangeMax ==
    \A i \in Idx :
        /\ 0 <= counters[i].value
        /\ counters[i].value <= counters[i].range_max

\* a running counter has counted down below range_min - 1
C2_Witness ==
    /\ lastOp = "step"
    /\ \E i \in Idx :
        /\ counters[i].state = "RUNNING"
        /\ before[i] = "RUNNING"
        /\ counters[i].value < counters[i].range_min - 1

\* counter 0 has rule MAX on counter 1 and syncs counter 1 only
SyncScenario ==
    /\ counters[0].rule = "MAX"
    /\ counters[0].rule_dest = 1
    /\ counters[0].sync = [j \in Idx |-> j = 1]

\* C3: in a step in which counter 0 (rule MAX on counter 1, sync to counter 1
\* only) completes while counter 1 is STOPPED, counter 1 becomes READY with
\* start_value = range_max; the step after makes it RUNNING with
\* value = start_value.
C3_SyncedCounterReady ==
    /\ [][(SyncScenario /\ counters[1].state = "STOPPED"
             /\ lastOp' = "step" /\ 0 \in completed')
          => /\ counters'[1].state = "READY"
             /\ counters'[1].start_value = counters'[1].range_max]_vars
    /\ [][(SyncScenario /\ lastOp = "step" /\ 0 \in completed
             /\ counters[1].state = "READY" /\ lastOp' = "step")
          => /\ counters'[1].state = "RUNNING"
             /\ counters'[1].value = counters'[1].start_value]_vars

\* C3, as the code has it: step starts a synced counter at once, not delayed.
\* When counter 0 is the only counter to complete in the step, counter 1 is
\* RUNNING after it with start_value = range_max, and, being processed after
\* counter 0 in the same loop, already decremented once; a following step in
\* which no counter completes decrements it again.
C3_SyncedCounterRunning ==
    /\ [][(SyncScenario /\ counters[1].state = "STOPPED"
             /\ lastOp' = "step" /\ completed' = {0})
          => /\ counters'[1].state = "RUNNING"
             /\ counters'[1].start_value = counters'[1].range_max
             /\ counters'[1].value = counters'[1].start_value - 1]_vars
    /\ [][(SyncScenario /\ lastOp = "step" /\ completed = {0}
             /\ before[1] = "STOPPED"
             /\ lastOp' = "step" /\ completed' = {})
          => /\ counters'[1].state = "RUNNING"
             /\ counters'[1].value = counters[1].value - 1]_vars

\* counter 0 alone has completed and counter 1, STOPPED before the step, is
\* RUNNING one position below range_max
C3_Witness ==
    /\ SyncScenario
    /\ lastOp = "step" /\ completed = {0}
    /\ before[1] = "STOPPED"
    /\ counters[1].state = "RUNNING"
    /\ counters[1].start_value = counters[1].range_max
    /\ counters[1].value = counters[1].range_max - 1

\* C4: reset_counters() does not change the value of a counter that is
\* RUNNING when it is called.
C4_ResetKeepsRunningValue ==
    [][lastOp' = "reset_counters" =>
         \A i \in Idx : counters[i].state = "RUNNING"
                          => counters'[i].value = counters[i].value]_vars

\* C4, as the code has it: reset_counters() sets every counter's start_value
\* to range_min and restarts every RUNNING counter delayed, and Counter.start
\* assigns value = start_value also when delayed: the counter is READY with
\* value = range_min as soon as the call returns.  Counters in another state
\* keep their state and value.  A following step in which no counter
\* completes makes the READY counter RUNNING at that value, undecremented.
C4_ResetRestartsRunning ==
    /\ [][lastOp' = "reset_counters" =>
            \A i \in Idx :
                /\ counters'[i].start_value = counters[i].range_min
                /\ IF counters[i].state = "RUNNING"
                   THEN /\ counters'[i].state = "READY"
                        /\ counters'[i].value = counters[i].range_min
                   ELSE /\ counters'[i].state = counters[i].state
                        /\ counters'[i].value = counters[i].value]_vars
    /\ [][(lastOp = "reset_counters" /\ lastOp' = "step" /\ completed' = {}) =>
            \A i \in Idx :
                (before[i] = "RUNNING" /\ counters[i].state = "READY")
                    => /\ counters'[i].state = "RUNNING"
                       /\ counters'[i].value = counters[i].range_min]_vars

\* a counter of a range with more than one position, RUNNING when
\* reset_counters() was called, is READY at range_min
C4_Witness ==
    /\ lastOp = "reset_counters"
    /\ \E i \in Idx :
        /\ before[i] = "RUNNING"
        /\ counters[i].state = "READY"
        /\ counters[i].value = counters[i].range_min
        /\ counters[i].range_min < counters[i].range_max


\* C8: step runs as one resumption of the play task, which is suspended in
\* sync() before and after it; the task is cancelled only while suspended
\* there and steps no more afterwards; each step gives the output to the MIDI
\* sink exactly once, as it is after all counters are processed, and
\* dispatches updated once.
C8_StepAtomicPipeOnce ==
    /\ [](lastOp = "step" =>
            /\ npipe = 1 /\ ndispatch = 1
            /\ notes = {j \in Idx : output[j] # "NONE"})
    /\ [][(lastOp' = "step" /\ <<counters, output, notes, lastOp, before>>'
                                  # <<counters, output, notes, lastOp, before>>)
            => (play = "woken" /\ play' = "sync")]_vars
    /\ [][(play' = "cancelling" /\ play # "cancelling") => play \in Suspended]_vars
    /\ [][lastOp' = "step" => play \notin {"cancelling", "done"}]_vars

\* the play task was cancelled after a step that switched notes on; the sink
\* holds the output of that step
C8_Witness ==
    /\ play = "done"
    /\ lastOp = "stop"
    /\ notes # {}
    /\ notes = {j \in Idx : output[j] # "NONE"}

\* C9: in a step in which exactly one counter i completes, for every slot j:
\* events[i][j] = TRIGGER sets output[j] to TRIGGER; TOGGLE flips output[j]
\* between TOGGLE and NONE; NONE leaves output[j] as the step found it, a
\* TRIGGER of the step before being cleared.  With events [TRIGGER, TOGGLE,
\* NONE, ...] on counter 0 and the output [NONE, TOGGLE, NONE, ...], the
\* output after the step is [TRIGGER, NONE, NONE, ...].
C9_EventsApplied ==
    [][\A i \in Idx :
         (lastOp' = "step" /\ completed' = {i}) =>
            /\ \A j \in Idx :
                 LET ev == counters[i].events[j]
                     o == IF output[j] = "TRIGGER" THEN "NONE" ELSE output[j]
                 IN /\ ev = "TRIGGER" => output'[j] = "TRIGGER"
                    /\ ev = "TOGGLE" =>
                         output'[j] = (IF o = "TOGGLE" THEN "NONE" ELSE "TOGGLE")
                    /\ ev = "NONE" => output'[j] = o
            /\ (/\ i = 0
                /\ counters[0].events = ScenarioEvents
                /\ output = [j \in Idx |-> IF j = 1 THEN "TOGGLE" ELSE "NONE"])
               => output' = [j \in Idx |-> IF j = 0 THEN "TRIGGER" ELSE "NONE"]]_vars

\* counter 0, with events [TRIGGER, TOGGLE, NONE, ...], alone has completed
\* and left the output [TRIGGER, NONE, NONE, ...]
C9_Witness ==
    /\ lastOp = "step" /\ completed = {0}
    /\ counters[0].events = ScenarioEvents
    /\ output = [j \in Idx |-> IF j = 0 THEN "TRIGGER" ELSE "NONE"]

\* C10: step clears every TRIGGER slot before it processes the counters: a
\* slot that is TRIGGER after a step was set by a counter that completed in
\* that step with events[j] = TRIGGER.
C10_TriggerOneStep ==
    lastOp = "step" =>
        \A j \in Idx :
            output[j] = "TRIGGER" =>
                \E i \in completed : counters[i].events[j] = "TRIGGER"

\* slot 1 is TOGGLE, so counter 0 has completed and set slot 0 to TRIGGER;
\* after a step in which no counter completed slot 0 is NONE again
C10_Witness ==
    /\ lastOp = "step" /\ completed = {}
    /\ counters[0].events = ScenarioEvents
    /\ output[0] = "NONE" /\ output[1] = "TOGGLE"

\* C11: an output slot that is TOGGLE stays TOGGLE until a completing counter
\* with events[j] = TOGGLE flips it or stop_counter of a counter with
\* events[j] = TOGGLE clears it; nothing else, a TRIGGER event on the slot
\* included, ends it.
C11_TogglePersists ==
    [][\A j \in Idx :
         (output[j] = "TOGGLE" /\ output'[j] # "TOGGLE") =>
            \/ /\ lastOp' = "step"
               /\ \E i \in completed' : counters[i].events[j] = "TOGGLE"
            \/ /\ lastOp' = "stop_counter"
               /\ \E i \in Idx : /\ counters[i].events[j] = "TOGGLE"
                                 /\ counters'[i].state = "STOPPED"]_vars

\* ------------------------------------------------------------------------
\* the order of events inside a step
\* ------------------------------------------------------------------------

\* A preset file in which one counter, the first or the last, has been
\* edited and was running when the preset was stored.  Either it applies INC
\* to itself and syncs nothing, or it applies MAX to counter 1 and syncs
\* counter 1 only.  Ranges are as in Presets.
OrderPresetCounter(i, a, self) ==
    IF i = a
    THEN [range_min |-> 1, range_max |-> MaxX,
          rule_dest |-> IF self THEN a ELSE 1,
          rule |-> IF self THEN "INC" ELSE "MAX",
          state |-> "RUNNING",
          events |-> [j \in Idx |-> IF j = i THEN "TRIGGER" ELSE "NONE"],
          sync |-> [j \in Idx |-> ~self /\ j = 1]]
    ELSE [range_min |-> IF i = 1 THEN 1 ELSE MaxX, range_max |-> MaxX,
          rule_dest |-> i, rule |-> "INC", state |-> "STOPPED",
          events |-> [j \in Idx |-> IF j = i THEN "TRIGGER" ELSE "NONE"],
          sync |-> [j \in Idx |-> j = i]]

OrderPresets ==
    {[i \in Idx |-> OrderPresetCounter(i, a, self)] :
        a \in {0, NumCounters - 1}, self \in BOOLEAN}

\* the automaton, constructed, with one of these presets recalled
InitOrder ==
    /\ ClockInit("FooClock")
    /\ GridInit
    /\ PlayLoopInit
    /\ \E p \in OrderPresets :
          counters = RecallResult([i \in Idx |->
                        IF i = 0 THEN [CounterInit(i) EXCEPT !.state = "READY"]
                        ELSE CounterInit(i)], p)
    /\ output = [i \in Idx |-> "NONE"]
    /\ notes = {}
    /\ play = "none"
    /\ lastOp = "recall_preset"
    /\ before = [i \in Idx |-> IF i = 0 THEN "READY" ELSE "STOPPED"]
    /\ completed = {}
    /\ npipe = 0
    /\ ndispatch = 1

SpecOrder == InitOrder /\ [][MpNext]_vars

\* C12: a counter i whose decrement reaches -1 is stopped first (value back
\* to the start_value it had), then its rule is applied once to the counter
\* at rule_dest, then its events and its sync are applied, so that a synced
\* counter starts from the start_value the rule left; in a step in which no
\* counter completes no rule, event or sync is applied.
C12_StopRuleThenEventsSync ==
    [][lastOp' = "step" =>
        /\ \A i \in Idx :
             (completed' = {i} /\ counters[i].rule # "RAND") =>
                LET c == counters[i]
                    d == c.rule_dest
                IN /\ counters'[d].start_value =
                          CounterApplyRule(counters[d], c.rule, 1).start_value
                   /\ (~c.sync[i] /\ c.rule # "STOP") =>
                          /\ counters'[i].state = "STOPPED"
                          /\ counters'[i].value = c.start_value
                   /\ \A j \in Idx :
                        /\ c.sync[j] =>
                             /\ counters'[j].state = "RUNNING"
                             /\ counters'[j].value = counters'[j].start_value
                                                      - (IF j > i THEN 1 ELSE 0)
                        /\ c.events[j] = "TRIGGER" => output'[j] = "TRIGGER"
                        /\ j # d => counters'[j].start_value = counters[j].start_value
        /\ completed' = {} =>
             \A j \in Idx :
                /\ counters'[j].start_value = counters[j].start_value
                /\ output'[j] = (IF output[j] = "TRIGGER" THEN "NONE" ELSE output[j])
                /\ \/ counters'[j].state = counters[j].state
                   \/ counters[j].state = "READY" /\ counters'[j].state = "RUNNING"]_vars

\* a counter with rule INC on itself and no sync has completed: it is
\* STOPPED at the start_value it had, one below the start_value it has now
C12_Witness ==
    /\ lastOp = "step"
    /\ \E i \in Idx :
        /\ completed = {i}
        /\ counters[i].rule = "INC" /\ counters[i].rule_dest = i
        /\ ~counters[i].sync[i]
        /\ counters[i].state = "STOPPED"
        /\ counters[i].value = counters[i].range_min
        /\ counters[i].start_value = counters[i].range_min + 1

\* C13: the counters are processed in ascending index order and the order
\* shows.  When counter i alone completes, with rule MAX on a counter j it
\* syncs, counter j is RUNNING after the step with start_value = range_max;
\* for j > i it has seen both before its own decrement of that step
\* (value = start_value - 1), for j < i it has not been decremented since
\* (value = start_value) and is decremented from the next step on.
C13_AscendingOrderObservable ==
    /\ [][\A i, j \in Idx :
            (/\ lastOp' = "step" /\ completed' = {i}
             /\ j # i /\ counters[i].sync[j]
             /\ counters[i].rule = "MAX" /\ counters[i].rule_dest = j)
            => /\ counters'[j].state = "RUNNING"
               /\ counters'[j].start_value = counters[j].range_max
               /\ counters'[j].value =
                     IF j > i THEN counters[j].range_max - 1
                     ELSE counters[j].range_max]_vars
    /\ [][\A i, j \in Idx :
            (/\ lastOp = "step" /\ completed = {i}
             /\ j # i /\ counters[i].sync[j]
             /\ counters[i].rule = "MAX" /\ counters[i].rule_dest = j
             /\ lastOp' = "step" /\ completed' = {})
            => /\ counters'[j].state = "RUNNING"
               /\ counters'[j].value =
                     IF j > i THEN counters[j].range_max - 2
                     ELSE counters[j].range_max - 1]_vars

\* the last counter alone has completed, with rule MAX on counter 1 and sync
\* to it: counter 1, STOPPED before the step, is RUNNING at range_max,
\* not yet decremented
C13_Witness ==
    /\ lastOp = "step" /\ completed = {NumCounters - 1}
    /\ counters[NumCounters - 1].sync[1]
    /\ counters[NumCounters - 1].rule = "MAX"
    /\ counters[NumCounters - 1].rule_dest = 1
    /\ before[1] = "STOPPED"
    /\ counters[1].state = "RUNNING"
    /\ counters[1].value = counters[1].range_max

\* ------------------------------------------------------------------------
\* start_counter, reset_counters, stop_counter
\* ------------------------------------------------------------------------

\* C14: start_counter(i) makes counter i READY; a READY counter stays READY
\* until the next step (or until it is stopped); in that step it becomes
\* RUNNING with value = start_value, undecremented, whatever else happens in
\* the step.
C14_DelayedStartNextStep ==
    /\ [][lastOp' = "start_counter" =>
            \E i \in Idx :
               counters' = [counters EXCEPT ![i].state = "READY",
                                            ![i].value = counters[i].start_value]]_vars
    /\ [][\A i \in Idx :
            (counters[i].state = "READY" /\ counters'[i].state # "READY")
                => lastOp' \in {"step", "stop_counter"}]_vars
    /\ [][\A i \in Idx :
            (lastOp' = "step" /\ counters[i].state = "READY")
                => /\ counters'[i].state = "RUNNING"
                   /\ counters'[i].value = counters'[i].start_value]_vars

\* no counter that completes in the step just taken syncs counter i or has
\* counter i as its rule_dest
Undisturbed(i) ==
    \A k \in completed' : ~counters[k].sync[i] /\ counters[k].rule_dest # i

\* C14, as the code has it: start_counter(i) makes counter i READY (with
\* value = start_value); it stays READY until the next step or until it is
\* stopped.  In that step it becomes RUNNING with value = start_value,
\* undecremented, provided no counter completing in the step syncs it or
\* applies its rule to it; under the same proviso the following step
\* decrements it (speed 0).  A completing counter of lower index that syncs
\* it starts it at once, and it is decremented in that same step.
C14_DelayedStartUndisturbed ==
    /\ [][lastOp' = "start_counter" =>
            \E i \in Idx :
               counters' = [counters EXCEPT ![i].state = "READY",
                                            ![i].value = counters[i].start_value]]_vars
    /\ [][\A i \in Idx :
            (counters[i].state = "READY" /\ counters'[i].state # "READY")
                => lastOp' \in {"step", "stop_counter"}]_vars
    /\ [][\A i \in Idx :
            (lastOp' = "step" /\ counters[i].state = "READY" /\ Undisturbed(i))
                => /\ counters'[i].state = "RUNNING"
                   /\ counters'[i].value = counters[i].start_value
                   /\ counters'[i].start_value = counters[i].start_value]_vars
    /\ [][\A i \in Idx :
            (/\ lastOp = "step" /\ before[i] = "READY"
             /\ counters[i].state = "RUNNING"
             /\ counters[i].value = counters[i].start_value
             /\ counters[i].value > 0
             /\ lastOp' = "step" /\ Undisturbed(i))
                => /\ counters'[i].state = "RUNNING"
                   /\ counters'[i].value = counters[i].value - 1]_vars
    /\ [][\A i, k \in Idx :
            (/\ lastOp' = "step" /\ counters[i].state = "READY"
             /\ completed' = {k} /\ k < i
             /\ counters[k].sync[i] /\ counters[k].rule = "MAX"
             /\ counters[k].rule_dest = i)
                => /\ counters'[i].state = "RUNNING"
                   /\ counters'[i].value = counters'[i].start_value - 1]_vars

\* counter 1, made READY by start_counter, has become RUNNING at start_value
\* in a step in which nothing completed
C14_Witness ==
    /\ lastOp = "step" /\ completed = {}
    /\ before[1] = "READY"
    /\ counters[1].state = "RUNNING"
    /\ counters[1].value = counters[1].start_value

\* C15: reset_counters() sets start_value = range_min for every counter
\* whatever its state, turns every RUNNING counter into READY and leaves
\* STOPPED and READY counters in their state; range_min, range_max, speed,
\* rule, rule_dest, events, sync and the output stay as they are.
C15_ResetFrame ==
    [][lastOp' = "reset_counters" =>
        /\ output' = output
        /\ \A i \in Idx :
            /\ counters'[i].start_value = counters[i].range_min
            /\ counters'[i].state =
                  (IF counters[i].state = "RUNNING" THEN "READY" ELSE counters[i].state)
            /\ counters'[i].range_min = counters[i].range_min
            /\ counters'[i].range_max = counters[i].range_max
            /\ counters'[i].speed = counters[i].speed
            /\ counters'[i].rule = counters[i].rule
            /\ counters'[i].rule_dest = counters[i].rule_dest
            /\ counters'[i].events = counters[i].events
            /\ counters'[i].sync = counters[i].sync]_vars

\* reset_counters() found counter 0 RUNNING and counter 1 STOPPED: counter 0
\* is READY, counter 1 still STOPPED, both with start_value = range_min
C15_Witness ==
    /\ lastOp = "reset_counters"
    /\ before[0] = "RUNNING" /\ counters[0].state = "READY"
    /\ before[1] = "STOPPED" /\ counters[1].state = "STOPPED"
    /\ counters[0].start_value = counters[0].range_min
    /\ counters[1].start_value = counters[1].range_min
    /\ counters[1].range_min < counters[1].range_max
    /\ \E j \in Idx : output[j] # "NONE"

\* C16: stop_counter(i) puts counter i in STOPPED with value = start_value
\* and sets to NONE the slots j with events[i][j] = TOGGLE and
\* output[j] = TOGGLE; every other slot and every other counter stay as
\* they are.
C16_StopCounterFrame ==
    [][lastOp' = "stop_counter" =>
        \E i \in Idx :
            /\ counters' = [counters EXCEPT ![i].state = "STOPPED",
                                            ![i].value = counters[i].start_value]
            /\ \A j \in Idx :
                 output'[j] = (IF counters[i].events[j] = "TOGGLE" /\ output[j] = "TOGGLE"
                               THEN "NONE" ELSE output[j])]_vars

\* stop_counter(0) found counter 0 RUNNING: it is STOPPED, the slot it
\* toggles, still sounding in the sink, is NONE, its TRIGGER slot is left
C16_Witness ==
    /\ lastOp = "stop_counter"
    /\ before[0] = "RUNNING" /\ counters[0].state = "STOPPED"
    /\ counters[0].events[1] = "TOGGLE"
    /\ output[1] = "NONE" /\ 1 \in notes
    /\ output[0] = "TRIGGER"

\* ------------------------------------------------------------------------
\* Counter.apply_rule as a function
\* ------------------------------------------------------------------------

\* counter i is the rule_dest of a completing counter whose rule is rule;
\* r is what random.randint(range_min, range_max) draws
ApplyRule(i, rule, r) ==
    /\ r \in counters[i].range_min..counters[i].range_max
    /\ counters' = [counters EXCEPT ![i] = CounterApplyRule(counters[i], rule, r)]
    /\ before' = [j \in Idx |-> counters[j].state]
    /\ lastOp' = rule
    /\ completed' = {}
    /\ npipe' = 0
    /\ ndispatch' = 0
    /\ UNCHANGED <<output, notes, play>>
    /\ UNCHANGED <<clockVars, gridVars, loopVars>>

\* counter 0 with any range inside 0..MaxPos, any start_value inside the
\* range, in any state
InitRule ==
    /\ ClockInit("FooClock")
    /\ GridInit
    /\ PlayLoopInit
    /\ \E a, b, sv \in 0..MaxPos : \E st \in {"STOPPED", "READY", "RUNNING"} :
          /\ a <= sv /\ sv <= b
          /\ counters = [i \in Idx |->
                IF i = 0
                THEN [CounterInit(0) EXCEPT !.range_min = a, !.range_max = b,
                                            !.start_value = sv, !.value = sv,
                                            !.state = st]
                ELSE CounterInit(i)]
    /\ output = [i \in Idx |-> "NONE"]
    /\ notes = {}
    /\ play = "none"
    /\ lastOp = "init"
    /\ before = [i \in Idx |-> "STOPPED"]
    /\ completed = {}
    /\ npipe = 0
    /\ ndispatch = 0

RuleNext == \E rule \in Rules, r \in 0..MaxPos : ApplyRule(0, rule, r)

SpecRule == InitRule /\ [][RuleNext]_vars

\* counter 0's start_value lies in its range
InRange0 ==
    /\ counters[0].range_min <= counters[0].start_value
    /\ counters[0].start_value <= counters[0].range_max

\* C18: on a counter with range_min <= start_value <= range_max, INC yields
\* start_value + 1, or range_min if that exceeds range_max; DEC yields
\* start_value - 1, or range_max if that falls below range_min; MAX yields
\* range_max; MIN yields range_min.  With the range 2..5: INC on 5 gives 2,
\* DEC on 2 gives 5, MAX gives 5, MIN gives 2.
C18_RuleTable ==
    [][InRange0 =>
        LET c == counters[0]
            sv == counters'[0].start_value
        IN /\ lastOp' = "INC" =>
                sv = (IF c.start_value + 1 > c.range_max
                      THEN c.range_min ELSE c.start_value + 1)
           /\ lastOp' = "DEC" =>
                sv = (IF c.start_value - 1 < c.range_min
                      THEN c.range_max ELSE c.start_value - 1)
           /\ lastOp' = "MAX" => sv = c.range_max
           /\ lastOp' = "MIN" => sv = c.range_min
           /\ (c.range_min = 2 /\ c.range_max = 5) =>
                /\ (lastOp' = "INC" /\ c.start_value = 5) => sv = 2
                /\ (lastOp' = "DEC" /\ c.start_value = 2) => sv = 5
                /\ lastOp' = "MAX" => sv = 5
                /\ lastOp' = "MIN" => sv = 2]_vars

\* DEC on the range 2..5 has left start_value = 5: it was 2 and has wrapped
C18_Witness ==
    /\ lastOp = "DEC"
    /\ counters[0].range_min = 2 /\ counters[0].range_max = 5
    /\ counters[0].start_value = 5

\* C19: POLE sets start_value to the bound, range_min or range_max, that is
\* farther from it, and to range_max when both are equally far; the result
\* is one of the two bounds.  With the range 2..5: 3 gives 5, 4 gives 2.
C19_Pole ==
    [][(InRange0 /\ lastOp' = "POLE") =>
        LET c == counters[0]
            sv == counters'[0].start_value
            to_min == c.start_value - c.range_min
            to_max == c.range_max - c.start_value
        IN /\ sv \in {c.range_min, c.range_max}
           /\ to_min > to_max => sv = c.range_min
           /\ to_max > to_min => sv = c.range_max
           /\ to_min = to_max => sv = c.range_max
           /\ (c.range_min = 2 /\ c.range_max = 5 /\ c.start_value = 3) => sv = 5
           /\ (c.range_min = 2 /\ c.range_max = 5 /\ c.start_value = 4) => sv = 2]_vars

\* POLE on the range 2..5 has left start_value = 2: it was 4 or 5
C19_Witness ==
    /\ lastOp = "POLE"
    /\ counters[0].range_min = 2 /\ counters[0].range_max = 5
    /\ counters[0].start_value = 2

\* ------------------------------------------------------------------------
\* meadowphysics.py: GridInterface
\* ------------------------------------------------------------------------

\* Rule, by its integer value: in RULE mode the row of a key is the rule
RuleSeq == <<"NONE", "INC", "DEC", "MAX", "MIN", "RAND", "POLE", "STOP">>

\* a variant: the second key of a row always sets range_max
RangeKeySecondSetsMax(c, x, count) ==
    IF count = 0
    THEN CounterStart([c EXCEPT !.start_value = x, !.range_min = x, !.range_max = x],
                      TRUE)
    ELSE IF count = 1
    THEN [c EXCEPT !.range_max = x]
    ELSE c

\* on_grid_key, MAIN mode, a key with x > 0 pressed in the row of counter c
\* while count keys of the row are held
RangeKey(c, x, count) ==
    IF count = 0
    THEN CounterStart([c EXCEPT !.start_value = x, !.range_min = x, !.range_max = x],
                      TRUE)
    ELSE IF count = 1
    THEN [c EXCEPT !.range_min = IF x < c.start_value THEN x ELSE @,
                   !.range_max = IF x > c.start_value THEN x ELSE @]
    ELSE c

\* on_grid_key, EDIT mode, a key pressed: what it makes of the counters
EditKeyCounters(x, y) ==
    LET e == edit_mode_counter IN
    IF x = 2
    THEN IF counters[y].state = "RUNNING"
         THEN [counters EXCEPT ![y] = CounterStop(counters[y])]
         ELSE [counters EXCEPT ![y] = CounterStart(counters[y], TRUE)]
    ELSE IF x = 3
    THEN [counters EXCEPT ![e].sync[y] = ~@]
    ELSE IF x = 5
    THEN [counters EXCEPT ![e].events[y] = IF @ # "TOGGLE" THEN "TOGGLE" ELSE "NONE"]
    ELSE IF x = 6
    THEN [counters EXCEPT ![e].events[y] = IF @ # "TRIGGER" THEN "TRIGGER" ELSE "NONE"]
    ELSE IF x > 7
    THEN [counters EXCEPT ![y].speed = x - 8, ![y].ticks = x - 8]
    ELSE counters

\* GridInterface.on_grid_key(x, y, s)
OnGridKey(x, y, s) ==
    /\ (mode = "MAIN" /\ s > 0 /\ x # 0) => main_mode_key_count[y] < MaxHeld
    /\ mode' =
         IF mode = "MAIN"
         THEN IF s > 0 /\ x = 0 THEN "EDIT" ELSE "MAIN"
         ELSE IF mode = "EDIT"
         THEN IF s > 0
              THEN IF x = 1 /\ edit_mode_counter = y THEN "RULE" ELSE "EDIT"
              ELSE IF x = 0 /\ edit_mode_counter = y THEN "MAIN" ELSE "EDIT"
         ELSE IF s > 0 THEN "RULE"
              ELSE IF x = 1 /\ edit_mode_counter = y THEN "EDIT"
              ELSE IF x = 0 /\ edit_mode_counter = y THEN "MAIN"
              ELSE "RULE"
    /\ edit_mode_counter' =
         IF mode = "MAIN" /\ s > 0 /\ x = 0 THEN y ELSE edit_mode_counter
    /\ main_mode_key_count' =
         IF mode # "MAIN" THEN main_mode_key_count
         ELSE IF s > 0
         THEN IF x = 0 THEN [i \in Idx |-> 0]
              ELSE [main_mode_key_count EXCEPT ![y] = @ + 1]
         ELSE IF x > 0
         THEN [main_mode_key_count EXCEPT ![y] = IF @ - 1 < 0 THEN 0 ELSE @ - 1]
         ELSE main_mode_key_count
    /\ counters' =
         IF s = 0 THEN counters
         ELSE IF mode = "MAIN"
         THEN IF x = 0 THEN counters
              ELSE [counters EXCEPT
                      ![y] = RangeKey(counters[y], x, main_mode_key_count[y])]
         ELSE IF mode = "EDIT" THEN EditKeyCounters(x, y)
         ELSE IF x > 6
         THEN [counters EXCEPT ![edit_mode_counter].rule = RuleSeq[y + 1]]
         ELSE IF x > 4
         THEN [counters EXCEPT ![edit_mode_counter].rule_dest = y]
         ELSE counters
    /\ output' =
         IF mode = "EDIT" /\ s > 0 /\ x = 2 /\ counters[y].state = "RUNNING"
         THEN [i \in Idx |->
                 IF counters[y].events[i] = "TOGGLE" /\ output[i] = "TOGGLE"
                 THEN "NONE" ELSE output[i]]
         ELSE output
    /\ before' = [i \in Idx |-> counters[i].state]
    /\ lastOp' = "grid_key"
    /\ completed' = {}
    /\ npipe' = 0
    /\ ndispatch' = 0
    /\ UNCHANGED <<notes, play>>
    /\ UNCHANGED <<clockVars, loopVars>>

\* the rows of the grid whose keys are pressed
EditRows == {0}

\* the automaton from construction, the range of counter 0 edited on the
\* grid in MAIN mode with the keys 1..MaxPos, with every rule applied to it
RangeNext ==
    \/ Step
    \/ \E i \in EditRows : StartCounter(i)
    \/ \E i \in EditRows : StopCounter(i)
    \/ ActionReset
    \/ \E i \in EditRows, rule \in Rules, r \in 0..MaxPos : ApplyRule(i, rule, r)
    \/ \E x \in 1..MaxPos, y \in EditRows, s \in {0, 1} : OnGridKey(x, y, s)

SpecRange == InitPlay /\ [][RangeNext]_vars

\* C17: range_min <= start_value <= range_max holds for every counter in
\* every state reached from construction by step, start_counter,
\* stop_counter, reset_counters, the application of any rule and the range
\* keys of the grid; no rule changes range_min or range_max.
C17_StartValueInRange ==
    /\ [](\A i \in Idx :
            /\ counters[i].range_min <= counters[i].start_value
            /\ counters[i].start_value <= counters[i].range_max)
    /\ [][lastOp' \in Rules =>
            \A i \in Idx :
                /\ counters'[i].range_min = counters[i].range_min
                /\ counters'[i].range_max = counters[i].range_max]_vars

\* a range key was pressed as second key of row 0 after a rule had moved
\* start_value: start_value lies strictly inside the range
C17_Witness ==
    /\ lastOp = "grid_key"
    /\ main_mode_key_count[0] = 2
    /\ counters[0].range_min < counters[0].start_value
    /\ counters[0].start_value < counters[0].range_max

\* MAIN mode, a range key (column x > 0) of a row
MainKey(x, y, s) == mode = "MAIN" /\ OnGridKey(x, y, s)

\* EDIT mode, a speed key (column 8 + k) of a row
SpeedKey(k, y, s) == mode = "EDIT" /\ OnGridKey(8 + k, y, s)

\* EDIT mode, the start/stop key (column 2) of a row pressed
StartStopKey(y) == mode = "EDIT" /\ OnGridKey(2, y, 1)

\* the automaton from construction, counter 0 started, stopped and given a
\* range and a speed on the grid (column 0 of the row switches the mode)
SpeedNext ==
    \/ Step
    \/ \E y \in EditRows, s \in {0, 1} : OnGridKey(0, y, s)
    \/ \E x \in 1..MaxPos, y \in EditRows, s \in {0, 1} : MainKey(x, y, s)
    \/ \E k \in 0..MaxSpeed, y \in EditRows, s \in {0, 1} : SpeedKey(k, y, s)
    \/ \E y \in EditRows : StartStopKey(y)

SpecSpeed == InitPlay /\ [][SpeedNext]_vars

\* C20: decrement() is a sub-divider.  In a step a RUNNING counter with
\* ticks = 0 loses exactly 1 from value (and, at -1, completes) and gets
\* ticks = speed; with ticks > 0 it loses 1 from ticks and keeps value; so
\* with speed s it loses 1 from value every s + 1 steps.
\* 0 <= ticks <= speed always holds.
C20_DecrementSubdivides ==
    /\ [](\A i \in Idx : 0 <= counters[i].ticks /\ counters[i].ticks <= counters[i].speed)
    /\ [][\A i \in Idx :
            (lastOp' = "step" /\ counters[i].state = "RUNNING" /\ completed' \subseteq {i})
            => IF counters[i].ticks = 0
               THEN /\ counters'[i].ticks = counters[i].speed
                    /\ \/ counters'[i].value = counters[i].value - 1
                       \/ i \in completed' /\ counters[i].value = 0
               ELSE /\ counters'[i].ticks = counters[i].ticks - 1
                    /\ counters'[i].value = counters[i].value
                    /\ completed' = {}]_vars

\* a counter with speed 1, running on, has just lost 1 from value and has
\* ticks = speed again
C20_Witness ==
    /\ lastOp = "step"
    /\ \E i \in Idx :
        /\ before[i] = "RUNNING" /\ counters[i].state = "RUNNING"
        /\ counters[i].speed = 1 /\ counters[i].ticks = 1
        /\ counters[i].value = counters[i].start_value - 1

\* ------------------------------------------------------------------------
\* properties of clocks.py: the MIDI thread, the reset, the tick-reading task
\* ------------------------------------------------------------------------

\* C21: ticks and stopped are changed only by callbacks of the loop, so they
\* do not change while a task that was woken in sync() is between its test
\* self.ticks % q and its return.
C21_TicksStableUntilReturn ==
    [][(busy.who \in Tasks) => (ticks' = ticks /\ stopped' = stopped)]_vars

\* C22: a clock byte (248) received while stopped is never counted: when
\* _read_ticks takes it from the queue it does not go on to self.ticks += 1.
C22_StoppedByteNotCounted ==
    [][(tick_queue # <<>> /\ tick_queue' = Tail(tick_queue) /\ Head(tick_queue))
          => busy'.who # "reader"]_vars

\* C23: the _read_ticks task of a RtMidiClock stays alive from construction
\* on (stop() is never called here), however long no pulse arrives.
C23_ReaderStaysAlive == kind = "RtMidiClock" => reader = "alive"

\* C24: for every clock ticks >= -1 always; whenever ticks goes up it goes up
\* by exactly 1 and every task waiting in sync() is notified; ticks goes down
\* only where a reset is handled (to 0 in FooClock, to -1 in RtMidiClock).
C24_CountsByOne ==
    /\ [](ticks >= 0 - 1)
    /\ [][ticks' > ticks =>
            /\ ticks' = ticks + 1
            /\ waiters' = <<>>
            /\ \A t \in SeqToSet(waiters) : pc'[t] = "woken"]_vars
    /\ [][ticks' < ticks => ticks' \in {0 - 1, 0}]_vars

\* C25: where a clock handles its reset signal ('/start' for FooClock, the
\* start byte for RtMidiClock), which is the only place where ticks goes
\* down, ticks becomes -1, so that the next counted pulse gives 0.
C25_ResetToMinusOne == [][ticks' < ticks => ticks' = 0 - 1]_vars

\* ------------------------------------------------------------------------
\* meadowphysics.py: presets from a file, rule_dest
\* ------------------------------------------------------------------------

\* a preset file whose counter 0 has a rule_dest that is no counter's index
\* (store_preset writes what the counters hold; the file is JSON on disk)
BadPreset ==
    [i \in Idx |->
        PresetCounter(i, "MAX", IF i = 0 THEN NumCounters ELSE i, [j \in Idx |-> j = 0])]

RecallPresets == Presets \cup {BadPreset}

\* MeadowphysicsApp.recall_preset
RecallPreset(p) ==
    /\ counters' = RecallResult(counters, p)
    /\ before' = [i \in Idx |-> counters[i].state]
    /\ lastOp' = "recall_preset"
    /\ completed' = {}
    /\ npipe' = 0
    /\ ndispatch' = 1
    /\ UNCHANGED <<output, notes, play>>
    /\ UNCHANGED <<clockVars, gridVars, loopVars>>

RECURSIVE ProcessIndexed(_, _, _)
\* step: the loop over the counters, from counter i on, where
\* self.counters[counter.rule_dest] raises IndexError for a rule_dest that is
\* no index: the loop ends there, the completing counter decremented and
\* stopped, its rule, events and sync not applied
ProcessIndexed(i, s, rnd) ==
    IF i >= NumCounters THEN [s |-> s, raised |-> FALSE]
    ELSE LET c == s.cs[i] IN
         IF /\ c.state = "RUNNING"
            /\ CounterDecrement(c).value = 0 - 1
            /\ c.rule_dest \notin Idx
         THEN [s |-> [s EXCEPT !.cs[i] = CounterStop(CounterDecrement(c))],
               raised |-> TRUE]
         ELSE ProcessIndexed(i + 1, ProcessCounter(i, s, rnd), rnd)

\* what random.randint can draw, for counters whose rule_dest may be no index
DrawsIndexed(cs) ==
    {rnd \in [Idx -> 1..MaxX] :
        \A i \in Idx :
            IF cs[i].rule = "RAND" /\ cs[i].rule_dest \in Idx
            THEN rnd[i] \in cs[cs[i].rule_dest].range_min..cs[cs[i].rule_dest].range_max
            ELSE rnd[i] = 1}

\* Meadowphysics.step, with the IndexError it can raise: after an IndexError
\* neither midi.pipe nor updated.dispatch is called
StepIndexed ==
    /\ \E rnd \in DrawsIndexed(counters) :
        LET r == ProcessIndexed(0, [cs |-> counters, out |-> ClearTriggers(output),
                                    completed |-> {}], rnd)
        IN /\ counters' = r.s.cs
           /\ output' = r.s.out
           /\ completed' = r.s.completed
           /\ notes' = IF r.raised THEN notes ELSE Pipe(r.s.out)
           /\ npipe' = IF r.raised THEN 0 ELSE 1
           /\ ndispatch' = IF r.raised THEN 0 ELSE 1
           /\ lastOp' = IF r.raised THEN "step_IndexError" ELSE "step"
    /\ before' = [i \in Idx |-> counters[i].state]
    /\ UNCHANGED play
    /\ UNCHANGED <<clockVars, gridVars, loopVars>>

\* RULE mode, a key of the rule_dest columns (5, 6) or of the rule columns
\* (7..15) pressed in row y
RuleKey(x, y) == mode = "RULE" /\ OnGridKey(x, y, 1)

\* presets recalled, the rule and rule_dest of counter 0 set on the grid
\* (columns 0 and 1 of its row lead into EDIT and RULE mode and back), and
\* steps
RecallNext ==
    \/ \E p \in RecallPresets : RecallPreset(p)
    \/ StepIndexed
    \/ \E x \in {0, 1}, y \in EditRows, s \in {0, 1} : OnGridKey(x, y, s)
    \/ \E x \in {5, 7}, y \in Idx : RuleKey(x, y)

SpecRecall == InitPlay /\ [][RecallNext]_vars

\* C26: every rule_dest is a counter's index in every state reached by
\* recalling presets, grid keys and steps (a preset with a rule_dest out of
\* range is rejected when it is loaded), and no step raises IndexError.
C26_RuleDestInRange ==
    /\ \A i \in Idx : counters[i].rule_dest \in Idx
    /\ lastOp # "step_IndexError"

\* ------------------------------------------------------------------------
\* meadowphysics.py: the play loop driven by a clock of clocks.py
\* ------------------------------------------------------------------------

\* the task that runs Meadowphysics.play
PlayTask == "t1"

\* the values the "div" spin button gives clock_div (1..64 in the source)
ClockDivs == {1, 2, 16}

\* Meadowphysics.start: the play task is created and runs to its first
\* await, self.clock.sync(1 / self.clock_div)
PlayStart ==
    /\ play = "none"
    /\ busy = Idle
    /\ pc[PlayTask] = "idle"
    /\ SyncEnter(PlayTask, <<1, clock_div>>)
    /\ q' = [q EXCEPT ![PlayTask] = <<1, clock_div>>]
    /\ pulsed' = [pulsed EXCEPT ![PlayTask] = FALSE]
    /\ hits' = [hits EXCEPT ![PlayTask] = 0]
    /\ ret' = [ret EXCEPT ![PlayTask] = 0]
    /\ play' = "sync"
    /\ lastOp' = "start"
    /\ before' = [i \in Idx |-> counters[i].state]
    /\ completed' = {}
    /\ npipe' = 0
    /\ ndispatch' = 0
    /\ UNCHANGED <<kind, ticks, stopped, tick_queue, reader, event, ready, tempoVars, orphans>>
    /\ UNCHANGED <<counters, output, notes>>
    /\ UNCHANGED <<gridVars, loopVars>>

\* Meadowphysics.play: sync() has returned; self.step(), and the loop goes
\* round to its next await self.clock.sync(1 / self.clock_div)
PlayTurn ==
    /\ play = "sync"
    /\ busy = Idle
    /\ pc[PlayTask] = "returned"
    /\ DoStep
    /\ SyncEnter(PlayTask, <<1, clock_div>>)
    /\ q' = [q EXCEPT ![PlayTask] = <<1, clock_div>>]
    /\ pulsed' = [pulsed EXCEPT ![PlayTask] = FALSE]
    /\ hits' = [hits EXCEPT ![PlayTask] = 0]
    /\ ret' = [ret EXCEPT ![PlayTask] = 0]
    /\ stepTick' = ticks
    /\ stepsAtTick' = IF stepTick = ticks THEN stepsAtTick + 1 ELSE 1
    /\ UNCHANGED <<nsteps, taskVars, midiVars, presetVars>>
    /\ UNCHANGED <<kind, ticks, stopped, tick_queue, reader, event, ready, tempoVars, orphans>>
    /\ UNCHANGED <<play, clock_div>>
    /\ UNCHANGED gridVars

\* MeadowphysicsApp, the "div" spin button changed: self.mp.clock_div = value
SetClockDiv(d) ==
    /\ busy = Idle
    /\ d # clock_div
    /\ clock_div' = d
    /\ stepTick' = 0 - 2
    /\ stepsAtTick' = 0
    /\ UNCHANGED <<nsteps, taskVars, midiVars, presetVars>>
    /\ UNCHANGED <<clockVars, mpVars, gridVars>>

\* the play loop on an InaccurateTempoClock
DriveNext ==
    \/ PlayStart
    \/ TempoTick
    \/ WakeCheck(PlayTask)
    \/ WakeReturn(PlayTask)
    \/ PlayTurn
    \/ \E d \in ClockDivs : SetClockDiv(d)

InitDrive == ClockInit("InaccurateTempoClock") /\ MpInit /\ GridInit /\ PlayLoopInit

SpecDrive == InitDrive /\ [][DriveNext]_vars

\* C27: the play loop makes one step per resolved sync(1 / clock_div), so
\* the automaton advances clock_div steps per pulse: when the next pulse
\* is counted, the loop has made clock_div steps since the last one (with
\* clock_div unchanged since then).
C27_DivStepsPerPulse ==
    [][(ticks' = ticks + 1 /\ stepTick = ticks) => stepsAtTick = clock_div]_vars

\* ------------------------------------------------------------------------
\* clocks.py: the tempo estimate
\* ------------------------------------------------------------------------

\* the clocks that estimate the tempo, fed pulses at any intervals
TempoNext ==
    \/ \E d \in Intervals : BangHandler(d)
    \/ StartHandler
    \/ MidiClockByte
    \/ MidiStart
    \/ MidiContinue
    \/ MidiStop
    \/ ReadTicksLoad
    \/ \E d \in Intervals : ReadTicksStore(d)
    \/ ReadTicksTimeout

InitTempo ==
    /\ \E k \in {"RtMidiClock", "FooClock"} : ClockInit(k)
    /\ MpInit
    /\ GridInit
    /\ PlayLoopInit

SpecTempo == InitTempo /\ [][TempoNext]_vars

\* C28: the interval history never holds more than MaxWindow (96) intervals,
\* and once MaxWindow pulses in a row have come at one interval d, bpm is
\* 60 / (24 * d), whatever intervals came before them.
C28_WindowedTempo ==
    /\ Len(tick_intervals) <= MaxWindow
    /\ runLen = MaxWindow => bpm[1] * 24 * runVal = 60 * bpm[2]

\* more pulses than the window holds were counted, the last MaxWindow of
\* them at the longest interval
C28_Witness ==
    /\ kind = "FooClock"
    /\ ticks = MaxTicks
    /\ runLen = MaxWindow
    /\ runVal = MaxInterval
    /\ bpm[1] * 24 * MaxInterval = 60 * bpm[2]

\* ------------------------------------------------------------------------
\* clocks.py: RtMidiClock.start and stop
\* ------------------------------------------------------------------------

\* a RtMidiClock, started and stopped by its owner, fed by the MIDI thread
StartStopNext ==
    \/ ClockStart
    \/ ClockStop
    \/ MidiClockByte
    \/ MidiStart
    \/ MidiContinue
    \/ MidiStop
    \/ ReadTicksLoad
    \/ \E d \in Steady : ReadTicksStore(d)
    \/ ReadTicksTimeout

InitStartStop == ClockInit("RtMidiClock") /\ MpInit /\ GridInit /\ PlayLoopInit

SpecStartStop == InitStartStop /\ [][StartStopNext]_vars

\* the _read_ticks tasks that are alive
AliveReaders == (IF reader = "alive" THEN 1 ELSE 0) + orphans

\* C29: start() is idempotent: however often it is called there is at most
\* one tick-reading task, and after stop() there is none.
C29_StartIdempotent ==
    /\ AliveReaders <= 1
    /\ reader = "cancelled" => AliveReaders = 0

\* ------------------------------------------------------------------------
\* meadowphysics.py: stop, twice
\* ------------------------------------------------------------------------

\* C30: stop is idempotent.  For every counter, in every state the automaton
\* reaches, Counter.stop() applied twice gives what it gives applied once;
\* and for every index i, stop_counter(i) applied twice gives the counters
\* and the output that it gives applied once.
C30_StopIdempotent ==
    \A i \in Idx :
        LET once == StopCounterResult(counters, output, i)
            twice == StopCounterResult(once.cs, once.out, i)
        IN /\ CounterStop(CounterStop(counters[i])) = CounterStop(counters[i])
           /\ twice.cs = once.cs
           /\ twice.out = once.out

\* stop_counter has stopped a running counter that has a TOGGLE event, and
\* the slot of that event is off
C30_Witness ==
    /\ lastOp = "stop_counter"
    /\ \E i \in Idx :
        /\ before[i] = "RUNNING" /\ counters[i].state = "STOPPED"
        /\ counters[i].value = counters[i].start_value
        /\ \E j \in Idx : counters[i].events[j] = "TOGGLE" /\ output[j] = "NONE"

\* ------------------------------------------------------------------------
\* meadowphysics.py: what the rules, start and stop leave alone
\* ------------------------------------------------------------------------

\* C31: INC, DEC, MAX, MIN, RAND and POLE change nothing but the
\* destination's start_value; NONE changes nothing; STOP changes nothing
\* but the destination's value (to start_value) and state (to STOPPED); no
\* rule changes a counter other than the destination (counter 0).
C31_RuleFrame ==
    [][lastOp' \in Rules =>
        /\ \A j \in Idx \ {0} : counters'[j] = counters[j]
        /\ lastOp' \in {"INC", "DEC", "MAX", "MIN", "RAND", "POLE"} =>
             counters'[0] = [counters[0] EXCEPT !.start_value = counters'[0].start_value]
        /\ lastOp' = "NONE" => counters'[0] = counters[0]
        /\ lastOp' = "STOP" =>
             counters'[0] = [counters[0] EXCEPT !.value = counters[0].start_value,
                                                !.state = "STOPPED"]
        /\ output' = output]_vars

\* MIN has moved the start_value of a running counter and left its value
C31_Witness ==
    /\ lastOp = "MIN"
    /\ counters[0].state = "RUNNING"
    /\ counters[0].start_value = counters[0].range_min
    /\ counters[0].value > counters[0].start_value

\* no other counter that completes in the step syncs counter i or has it
\* as its rule_dest
UndisturbedByOthers(i) ==
    \A k \in completed' \ {i} : ~counters[k].sync[i] /\ counters[k].rule_dest # i

\* C32: a RUNNING counter with value v >= 0, ticks t and speed s that nothing
\* else starts, stops or reconfigures completes at exactly the
\* (t + 1 + v * (s + 1))-th step from there: a step in which that number is
\* 1 completes it, any other step leaves it RUNNING with the number one
\* less.  The completing step resets value, and no counter has value -1
\* after a step.
C32_CompletesOnTime ==
    /\ [][\A i \in Idx :
            (/\ lastOp' = "step" /\ counters[i].state = "RUNNING"
             /\ counters[i].value >= 0 /\ UndisturbedByOthers(i))
            => LET n == counters[i].ticks + 1
                          + counters[i].value * (counters[i].speed + 1)
               IN IF n = 1
                  THEN i \in completed'
                  ELSE /\ i \notin completed'
                       /\ counters'[i].state = "RUNNING"
                       /\ counters'[i].ticks + 1
                            + counters'[i].value * (counters'[i].speed + 1) = n - 1]_vars
    /\ [][lastOp' = "step" =>
            \A i \in Idx :
                /\ counters'[i].value # 0 - 1
                /\ i \in completed' => counters'[i].value = counters'[i].start_value]_vars

\* a counter with speed 1 that ran on from a step before has completed
C32_Witness ==
    /\ lastOp = "step"
    /\ \E i \in Idx :
        /\ i \in completed
        /\ before[i] = "RUNNING"
        /\ counters[i].speed = 1
        /\ counters[i].start_value > 1

\* ------------------------------------------------------------------------
\* meadowphysics.py: the automaton left to itself
\* ------------------------------------------------------------------------

\* Meadowphysics.step with no operation of the grid or the application
\* between the steps; the steps are counted
FreeStep ==
    /\ nsteps < MaxSteps
    /\ DoStep
    /\ nsteps' = nsteps + 1
    /\ UNCHANGED <<play, clock_div, stepTick, stepsAtTick, taskVars, midiVars, presetVars>>
    /\ UNCHANGED <<clockVars, gridVars>>

SpecFree == InitPlay /\ [][FreeStep]_vars

\* C33: from construction, with steps only, counter 0 alone ever leaves
\* STOPPED and its start_value stays the constructor's (7, here MaxX);
\* output[0] is TRIGGER after the steps MaxX + 2, 2 * MaxX + 3, ... (9, 17,
\* 25, ... for 7: every MaxX + 1 steps) and NONE after every other step;
\* every other output slot stays NONE.
C33_FreeRunPeriod ==
    /\ \A i \in Idx \ {0} : counters[i].state = "STOPPED" /\ output[i] = "NONE"
    /\ counters[0].start_value = MaxX
    /\ output[0] = IF nsteps >= MaxX + 2 /\ (nsteps - (MaxX + 2)) % (MaxX + 1) = 0
                   THEN "TRIGGER" ELSE "NONE"

\* the second TRIGGER of output[0] (step 17 for 7)
C33_Witness ==
    /\ nsteps = 2 * MaxX + 3
    /\ output[0] = "TRIGGER"
    /\ counters[0].state = "RUNNING"

\* ------------------------------------------------------------------------
\* meadowphysics.py: a completing counter whose rule is STOP
\* ------------------------------------------------------------------------

\* presets in which counter a was running with the rule STOP aimed at counter
\* d, and syncs counter d or no counter; the other counters keep what
\* Counter.__init__ gave them and were stopped; every range is 1..MaxX
StopPresetCounter(i, a, d, sy) ==
    IF i = a
    THEN [range_min |-> 1, range_max |-> MaxX, rule_dest |-> d, rule |-> "STOP",
          state |-> "RUNNING",
          events |-> [j \in Idx |-> IF j = i THEN "TRIGGER" ELSE "NONE"],
          sync |-> [j \in Idx |-> sy /\ j = d]]
    ELSE [range_min |-> 1, range_max |-> MaxX, rule_dest |-> i, rule |-> "INC",
          state |-> "STOPPED",
          events |-> [j \in Idx |-> IF j = i THEN "TRIGGER" ELSE "NONE"],
          sync |-> [j \in Idx |-> j = i]]

\* the completing counter and its rule_dest: itself, a later counter, an
\* earlier counter
StopPairs == {<<0, 0>>, <<0, 1>>, <<NumCounters - 1, 1>>}

StopPresets ==
    {[i \in Idx |-> StopPresetCounter(i, ad[1], ad[2], sy)] :
        ad \in StopPairs, sy \in BOOLEAN}

\* the automaton, constructed, with one of these presets recalled
InitStopSync ==
    /\ ClockInit("FooClock")
    /\ GridInit
    /\ PlayLoopInit
    /\ \E p \in StopPresets :
          counters = RecallResult([i \in Idx |->
                        IF i = 0 THEN [CounterInit(i) EXCEPT !.state = "READY"]
                        ELSE CounterInit(i)], p)
    /\ output = [i \in Idx |-> "NONE"]
    /\ notes = {}
    /\ play = "none"
    /\ lastOp = "recall_preset"
    /\ before = [i \in Idx |-> IF i = 0 THEN "READY" ELSE "STOPPED"]
    /\ completed = {}
    /\ npipe = 0
    /\ ndispatch = 1

SpecStopSync == InitStopSync /\ [][MpNext]_vars

\* no counter that completes later in the step than counter i acts on counter d
NotActedOnLater(i, d) ==
    \A k \in completed' :
        (k > i /\ k # d) => (~counters[k].sync[d] /\ counters[k].rule_dest # d)

\* C34: a counter i that completes with the rule STOP, rule_dest d and
\* sync[d] leaves counter d RUNNING with value = start_value (i = d
\* included).  Seen at the end of the step: a counter d <= i is RUNNING at
\* its start_value; a counter d > i has its own turn afterwards in the same
\* step, as a RUNNING counter at start_value (speed 0: it is one below its
\* start_value, or has completed from 0).
C34_SyncOverridesStop ==
    [][lastOp' = "step" =>
        \A i \in completed' :
            LET d == counters[i].rule_dest IN
            (counters[i].rule = "STOP" /\ counters[i].sync[d] /\ NotActedOnLater(i, d)) =>
                IF d <= i
                THEN /\ counters'[d].state = "RUNNING"
                     /\ counters'[d].value = counters'[d].start_value
                ELSE \/ d \in completed'
                     \/ /\ counters'[d].state = "RUNNING"
                        /\ counters'[d].value = counters'[d].start_value - 1]_vars

\* the last counter has completed with the rule STOP aimed at counter 1,
\* which was running below its start_value and is synced by the last counter
C34_Witness ==
    /\ lastOp = "step"
    /\ NumCounters - 1 \in completed
    /\ counters[NumCounters - 1].rule = "STOP"
    /\ counters[NumCounters - 1].rule_dest = 1
    /\ counters[NumCounters - 1].sync[1]
    /\ before[1] = "RUNNING"
    /\ counters[1].state = "RUNNING"
    /\ counters[1].value = counters[1].start_value
    /\ counters[1].start_value > 0

\* the play loops that are neither cancelled nor done
LiveLoops == stale + (IF play \in Suspended THEN 1 ELSE 0)

\* C35: whatever the sequence of action_start_stop calls, calls made while a
\* cancelled play task is not yet done included, at most one play loop that
\* is not cancelled exists (none besides the one play_task refers to), so
\* that one clock wake-up leads to one step.
C35_OneLiveLoop ==
    /\ stale = 0
    /\ LiveLoops <= 1

\* action_start_stop called again while the cancelled play task is not done
C35_Witness ==
    /\ play = "cancelling"
    /\ lastOp = "stop"
    /\ cancels = 2

\* ------------------------------------------------------------------------
\* meadowphysics.py: the play loop stopped and started, with a preset recalled
\* ------------------------------------------------------------------------

SpecPresetPlay == InitMP /\ [][PlayNext]_vars

\* C36: Meadowphysics.stop keeps the counters and resets them (start_value =
\* range_min; a RUNNING counter becomes READY at that value; every other
\* field stays), leaves output as it is and gives nothing to the MIDI sink.
\* Afterwards the sounding notes change only in a step, which only a play
\* task started again makes, and the output only in a step or by
\* stop_counter.
C36_StopKeepsOutputAndNotes ==
    /\ [][(lastOp' = "stop" /\ play' = "cancelling") =>
            /\ output' = output
            /\ notes' = notes
            /\ npipe' = 0
            /\ \A i \in Idx :
                 counters'[i] =
                    [counters[i] EXCEPT
                        !.start_value = counters[i].range_min,
                        !.value = IF counters[i].state = "RUNNING"
                                  THEN counters[i].range_min ELSE counters[i].value,
                        !.state = IF counters[i].state = "RUNNING"
                                  THEN "READY" ELSE counters[i].state]]_vars
    /\ [][notes' # notes => (play = "woken" /\ play' = "sync" /\ lastOp' = "step")]_vars
    /\ [][output' # output => (lastOp' \in {"step", "stop_counter"})]_vars
    /\ [](play \in {"cancelling", "done"} => lastOp # "step")

\* the play task has been stopped and started again, and no step was made
\* since: a TRIGGER slot and a TOGGLE slot are as the last step left them, and
\* their notes sound
C36_Witness ==
    /\ lastOp = "start"
    /\ play = "sync"
    /\ \E j \in Idx : output[j] = "TRIGGER" /\ j \in notes
    /\ \E j \in Idx : output[j] = "TOGGLE" /\ j \in notes
    /\ \E i \in Idx : counters[i].state = "READY" /\ counters[i].start_value < MaxX

\* ------------------------------------------------------------------------
\* meadowphysics.py: MidiOut.pipe with channel, root and scale changed
\* between the steps
\* ------------------------------------------------------------------------

\* Meadowphysics.step with MidiOut.pipe on (channel, note) pairs
MidiStep ==
    /\ DoStep
    /\ LET new_notes == NewNotes(output', channel, root, scale) IN
       /\ sounding' = new_notes
       /\ note_ons' = NoteOns(sounding, new_notes)
       /\ note_offs' = NoteOffs(sounding, new_notes, output', channel, root, scale)
       /\ owed' = (owed \cup NoteOns(sounding, new_notes))
                     \ NoteOffs(sounding, new_notes, output', channel, root, scale)
       /\ slotNote' = [i \in Idx |-> IF output'[i] # "NONE"
                                     THEN NewNote(i, channel, root, scale) ELSE <<>>]
    /\ UNCHANGED <<channel, root, scale>>
    /\ UNCHANGED <<play, clock_div, stepTick, stepsAtTick, nsteps, taskVars, presetVars>>
    /\ UNCHANGED <<clockVars, gridVars>>

\* MeadowphysicsApp.on_spin_button_changed, "channel"
SetChannel(v) ==
    /\ v # channel
    /\ channel' = v
    /\ UNCHANGED <<root, scale, sounding, note_ons, note_offs, slotNote, owed>>
    /\ UNCHANGED <<clock_div, stepTick, stepsAtTick, nsteps, taskVars, presetVars>>
    /\ UNCHANGED <<clockVars, mpVars, gridVars>>

\* MeadowphysicsApp.on_spin_button_changed, "root"
SetRoot(v) ==
    /\ v # root
    /\ root' = v
    /\ UNCHANGED <<channel, scale, sounding, note_ons, note_offs, slotNote, owed>>
    /\ UNCHANGED <<clock_div, stepTick, stepsAtTick, nsteps, taskVars, presetVars>>
    /\ UNCHANGED <<clockVars, mpVars, gridVars>>

\* MeadowphysicsApp.on_select_changed, "scale"
SetScale(v) ==
    /\ v # scale
    /\ scale' = v
    /\ UNCHANGED <<channel, root, sounding, note_ons, note_offs, slotNote, owed>>
    /\ UNCHANGED <<clock_div, stepTick, stepsAtTick, nsteps, taskVars, presetVars>>
    /\ UNCHANGED <<clockVars, mpVars, gridVars>>

\* steps, with the MIDI settings changed in between
MidiNext ==
    \/ MidiStep
    \/ \E v \in Channels : SetChannel(v)
    \/ \E v \in Roots : SetRoot(v)
    \/ \E v \in ScaleNames : SetScale(v)

SpecMidi == InitMP /\ [][MidiNext]_vars

\* a step of SpecMidi that is Meadowphysics.step with its pipe
IsPipe == lastOp' = "step" /\ UNCHANGED <<channel, root, scale>>

\* C37 as it is stated: after a pipe the tracked set is {(channel, root +
\* scale[i]) : output[i] != NONE}, note-ons go to the notes entering it and
\* note-offs to the notes leaving it, and the note of a slot that has
\* returned to NONE gets its note-off in that pipe.
C37_NoteOffWhenSlotOff ==
    [][IsPipe =>
        /\ sounding' = {<<channel, root + ScaleTable[scale][i + 1]>> :
                           i \in {j \in Idx : output'[j] # "NONE"}}
        /\ note_ons' = sounding' \ sounding
        /\ note_offs' = sounding \ sounding'
        /\ \A i \in Idx :
             (slotNote[i] # <<>> /\ output'[i] = "NONE") => slotNote[i] \in note_offs']_vars

\* C37, amended: the tracked set and the requests are as stated, and the
\* notes with a note-on and no note-off since are those of the tracked set
\* (none once every slot is NONE); the note of a slot that has returned to
\* NONE gets its note-off in that pipe unless a slot that is not NONE has
\* that channel and note under the settings as they are now.
C37_NoteOffWhenNoteLeaves ==
    [][IsPipe =>
        /\ sounding' = {<<channel, root + ScaleTable[scale][i + 1]>> :
                           i \in {j \in Idx : output'[j] # "NONE"}}
        /\ note_ons' = sounding' \ sounding
        /\ note_offs' = sounding \ sounding'
        /\ owed' = sounding'
        /\ (\A i \in Idx : output'[i] = "NONE") => owed' = {}
        /\ \A i \in Idx :
             (slotNote[i] # <<>> /\ output'[i] = "NONE") =>
                \/ slotNote[i] \in note_offs'
                \/ \E j \in Idx :
                     /\ output'[j] # "NONE"
                     /\ slotNote[i] = <<channel, root + ScaleTable[scale][j + 1]>>]_vars

\* the channel was changed while a note sounded: the pipe has requested the
\* note-off on the channel the note was switched on with
C37_Witness ==
    /\ lastOp = "step"
    /\ \E n \in note_offs : n[1] # channel
    /\ owed = sounding
    /\ slotNote[1] = <<>>

\* C38: Counter.start and Counter.stop leave ticks and speed as they are.  A
\* key that starts or stops a counter (the start/stop key, or a range key,
\* which first sets start_value) sets value = start_value and keeps ticks and
\* speed; the step that makes a READY counter RUNNING keeps
\* its ticks; a counter that completes has the ticks its last decrement gave
\* it (speed), which stop and the sync start keep; and a RUNNING counter with
\* ticks left over counts them down before its value changes.
C38_StartStopKeepPhase ==
    /\ [][lastOp' = "grid_key" =>
            \A i \in Idx :
                counters'[i].state # counters[i].state =>
                    /\ counters'[i].ticks = counters[i].ticks
                    /\ counters'[i].speed = counters[i].speed
                    /\ counters'[i].value = counters'[i].start_value]_vars
    /\ [][\A i \in Idx :
            (lastOp' = "step" /\ UndisturbedByOthers(i)) =>
                /\ counters'[i].speed = counters[i].speed
                /\ counters[i].state = "READY" =>
                     /\ counters'[i].state = "RUNNING"
                     /\ counters'[i].ticks = counters[i].ticks
                     /\ counters'[i].value = counters[i].start_value
                /\ i \in completed' => counters'[i].ticks = counters[i].speed
                /\ (counters[i].state = "RUNNING" /\ counters[i].ticks > 0) =>
                     /\ counters'[i].value = counters[i].value
                     /\ counters'[i].ticks = counters[i].ticks - 1]_vars

\* a counter stopped and started again in the middle of a period has become
\* RUNNING with the ticks that were left over
C38_Witness ==
    /\ lastOp = "step"
    /\ \E i \in Idx :
        /\ before[i] = "READY"
        /\ counters[i].state = "RUNNING"
        /\ counters[i].ticks > 0
        /\ counters[i].ticks < counters[i].speed
        /\ counters[i].value = counters[i].start_value

\* ------------------------------------------------------------------------
\* meadowphysics.py: store_preset and recall_preset
\* ------------------------------------------------------------------------

\* MeadowphysicsApp.store_preset: what it writes for the counters
StoredCounters(cs) ==
    [i \in Idx |->
        [range_min |-> cs[i].range_min, range_max |-> cs[i].range_max,
         events |-> cs[i].events, sync |-> cs[i].sync,
         rule_dest |-> cs[i].rule_dest, rule |-> cs[i].rule,
         state |-> cs[i].state]]

\* MeadowphysicsApp.store_preset
StorePreset ==
    /\ preset_file' = StoredCounters(counters)
    /\ at_store' = [i \in Idx |->
                      [range_min |-> counters[i].range_min,
                       range_max |-> counters[i].range_max,
                       speed |-> counters[i].speed,
                       rule |-> counters[i].rule,
                       rule_dest |-> counters[i].rule_dest,
                       events |-> counters[i].events,
                       sync |-> counters[i].sync]]
    /\ lastOp' = "store_preset"
    /\ UNCHANGED <<counters, output, notes, play, before, completed, npipe, ndispatch>>
    /\ UNCHANGED <<clock_div, stepTick, stepsAtTick, nsteps, taskVars, midiVars>>
    /\ UNCHANGED <<clockVars, gridVars>>

\* MeadowphysicsApp.recall_preset of the file stored (the recall button is
\* enabled once the file exists)
RecallStored ==
    /\ preset_file # <<>>
    /\ RecallPreset(preset_file)

\* the configuration changed on the grid (range and speed of counter 0; column
\* 0 of its row switches the mode), stored and recalled
StoreNext ==
    \/ StorePreset
    \/ RecallStored
    \/ \E y \in EditRows, s \in {0, 1} : OnGridKey(0, y, s)
    \/ \E x \in {1, MaxX}, y \in EditRows, s \in {0, 1} : MainKey(x, y, s)
    \/ \E k \in 0..MaxSpeed, y \in EditRows : SpeedKey(k, y, 1)

SpecStore == InitPlay /\ [][StoreNext]_vars

\* C39: after recall_preset every counter's range_min, range_max, speed, rule,
\* rule_dest, events and sync are what they were when the preset was stored.
C39_RoundTrip ==
    [][lastOp' = "recall_preset" =>
        \A i \in Idx :
            /\ counters'[i].range_min = at_store[i].range_min
            /\ counters'[i].range_max = at_store[i].range_max
            /\ counters'[i].speed = at_store[i].speed
            /\ counters'[i].rule = at_store[i].rule
            /\ counters'[i].rule_dest = at_store[i].rule_dest
            /\ counters'[i].events = at_store[i].events
            /\ counters'[i].sync = at_store[i].sync]_vars

====
